---- MODULE Spec2Model ----
(***************************************************************************)
(* vcontrold-mqttd: the session client (src/vcontrold/client.rs), the      *)
(* polling scheduler (src/polling.rs), the request/response subscriber     *)
(* (src/mqtt/subscriber.rs), the MQTT event loop (src/mqtt/client.rs) and  *)
(* the supervisor (src/main.rs) as one state machine.                      *)
(*                                                                         *)
(* Strings the code inspects character by character (commands, payloads)   *)
(* are sequences of one-character strings, e.g. <<"a", ",", "b">>.         *)
(***************************************************************************)
EXTENDS Integers, Sequences, FiniteSets, TLC

\* ------------------------------------------------------------------ bounds
MaxDials == 2        \* TCP connections the session client may open
MaxTicks == 2        \* ticks of the polling interval
MaxEvents == 1       \* events the MQTT event loop polls
MaxCommands == 3     \* commands of a list handed to batch_commands
MaxBatchLength == 4  \* largest MAX_LENGTH handed to batch_commands
MaxTime == 11        \* seconds the clock runs for
MaxLineTail == 2     \* characters of a response line after its prefix

\* ------------------------------------------------------- configurations
\* config.commands (COMMANDS) and the values MAX_LENGTH is drawn from
PollCommands == << <<"a">>, <<"b">> >>
MaxLengths   == {1, 3}
\* incoming publishes: topics and payloads the broker may deliver
BaseTopic    == "B"
Topics       == { <<BaseTopic, "request">>, <<BaseTopic, "other">> }
Payloads     == { <<"c">> }
\* command names batch_commands is applied to (one is empty, one is long)
CommandNames == { <<>>, <<"a">>, <<"b", "b">>, <<"c", "c", "c">> }

\* ------------------------------------------------------ protocol codec
IsWhitespace(c) == c \in {" ", "\t", "\n"}
is_control(c)   == c \in {"\t", "\n"}

RECURSIVE TrimStart(_)
TrimStart(s) ==
    IF s # <<>> /\ IsWhitespace(Head(s)) THEN TrimStart(Tail(s)) ELSE s

RECURSIVE TrimEnd(_)
TrimEnd(s) ==
    IF s # <<>> /\ IsWhitespace(s[Len(s)])
    THEN TrimEnd(SubSeq(s, 1, Len(s) - 1)) ELSE s

Trim(s) == TrimEnd(TrimStart(s))

\* variant: only the empty command is rejected
validate_command_EmptyOnly(cmd) ==
    IF Trim(cmd) = <<>> THEN "empty command" ELSE "ok"

validate_command(cmd) ==
    LET c == Trim(cmd) IN
    IF c = <<>> THEN "empty command"
    ELSE IF \E i \in 1..Len(c) : is_control(c[i]) /\ c[i] # " "
         THEN "command contains invalid characters"
         ELSE "ok"

format_command(cmd) == Trim(cmd) \o <<"\n">>

ERR_PREFIX == <<"E", "R", "R", ":">>

starts_with(s, prefix) ==
    Len(s) >= Len(prefix) /\ SubSeq(s, 1, Len(prefix)) = prefix

\* raw.split_whitespace().next().unwrap_or(raw), for a trimmed raw
RECURSIVE first_word(_)
first_word(raw) ==
    IF raw = <<>> \/ IsWhitespace(Head(raw)) THEN <<>>
    ELSE << Head(raw) >> \o first_word(Tail(raw))

\* first_word.parse::<f64>().is_ok(), for the unsigned decimal integers
\* the daemon's values are drawn from
parses_as_number(word) ==
    word # <<>> /\ \A i \in 1..Len(word) : word[i] \in {"0", "1", "2"}

\* Value::None
NoValue == [tag |-> "None", text |-> <<>>]

\* variant: the line is tested for ERR: before it is trimmed
parse_response_TestUntrimmed(command, raw0) ==
    LET raw == Trim(raw0) IN
    IF starts_with(raw0, ERR_PREFIX)
    THEN [command |-> command, value |-> NoValue, error |-> << raw >>]
    ELSE [command |-> command,
          value |-> IF parses_as_number(first_word(raw))
                    THEN [tag |-> "Number", text |-> first_word(raw)]
                    ELSE IF raw # <<>>
                         THEN [tag |-> "String", text |-> raw]
                         ELSE NoValue,
          error |-> <<>>]

\* a CommandResult: error is <<>> for None and << message >> for Some
parse_response(command, raw0) ==
    LET raw == Trim(raw0) IN
    IF starts_with(raw, ERR_PREFIX)
    THEN [command |-> command, value |-> NoValue, error |-> << raw >>]
    ELSE [command |-> command,
          value |-> IF parses_as_number(first_word(raw))
                    THEN [tag |-> "Number", text |-> first_word(raw)]
                    ELSE IF raw # <<>>
                         THEN [tag |-> "String", text |-> raw]
                         ELSE NoValue,
          error |-> <<>>]

\* Value::to_json_value
to_json_value(value) ==
    IF value.tag = "None" THEN [tag |-> "Null", text |-> <<>>] ELSE value

\* variant: results with an error are reported as well
in_response_All(result) == TRUE

\* build_json_response: the result gets a member of the JSON object
in_response(result) == result.error = <<>>

\* build_json_response: the JSON object as the set of its <<key, value>>
\* members; an insert replaces the member of the same key
RECURSIVE JsonInsertAll(_, _)
JsonInsertAll(results, map) ==
    IF results = <<>> THEN map
    ELSE LET result == Head(results)
             m1 == IF in_response(result)
                   THEN { kv \in map : kv[1] # result.command }
                        \cup { << result.command, to_json_value(result.value) >> }
                   ELSE map
         IN JsonInsertAll(Tail(results), m1)

build_json_response(results) == JsonInsertAll(results, {})

\* ------------------------------------------------------------ subscriber
request_topic == <<BaseTopic, "request">>
RECURSIVE SplitComma(_, _)
SplitComma(s, cur) ==
    IF s = <<>> THEN <<cur>>
    ELSE IF Head(s) = "," THEN <<cur>> \o SplitComma(Tail(s), <<>>)
         ELSE SplitComma(Tail(s), Append(cur, Head(s)))

NonEmpty(s) == s # <<>>

parse_commands(payload) ==
    LET parts == SplitComma(payload, <<>>)
        trimmed == [i \in 1..Len(parts) |-> Trim(parts[i])]
    IN SelectSeq(trimmed, NonEmpty)

\* ------------------------------------------------------------- scheduler
\* variant: a batch is closed as soon as the next command would fill it
RECURSIVE BatchLoop_CloseWhenFilled(_, _, _, _, _)
BatchLoop_CloseWhenFilled(commands, max_len, batches, current_batch, current_length) ==
    IF commands = <<>>
    THEN IF current_batch # <<>> THEN Append(batches, current_batch)
                                 ELSE batches
    ELSE LET cmd == Head(commands)
             cmd_len == Len(cmd)
             separator_len == IF current_batch = <<>> THEN 0 ELSE 1
             full == /\ current_length + separator_len + cmd_len >= max_len
                     /\ current_batch # <<>>
             b1 == IF full THEN Append(batches, current_batch) ELSE batches
             c1 == IF full THEN <<>> ELSE current_batch
             l1 == IF full THEN 0 ELSE current_length
             l2 == l1 + (IF l1 = 0 THEN cmd_len ELSE 1 + cmd_len)
         IN BatchLoop_CloseWhenFilled(Tail(commands), max_len, b1,
                                      Append(c1, cmd), l2)

\* variant: the length check leaves out the length of the command itself
RECURSIVE BatchLoop_IgnoreCmdLen(_, _, _, _, _)
BatchLoop_IgnoreCmdLen(commands, max_len, batches, current_batch, current_length) ==
    IF commands = <<>>
    THEN IF current_batch # <<>> THEN Append(batches, current_batch)
                                 ELSE batches
    ELSE LET cmd == Head(commands)
             cmd_len == Len(cmd)
             separator_len == IF current_batch = <<>> THEN 0 ELSE 1
             full == /\ current_length + separator_len > max_len
                     /\ current_batch # <<>>
             b1 == IF full THEN Append(batches, current_batch) ELSE batches
             c1 == IF full THEN <<>> ELSE current_batch
             l1 == IF full THEN 0 ELSE current_length
             l2 == l1 + (IF l1 = 0 THEN cmd_len ELSE 1 + cmd_len)
         IN BatchLoop_IgnoreCmdLen(Tail(commands), max_len, b1,
                                   Append(c1, cmd), l2)

\* the for loop of batch_commands and the push of the last batch
RECURSIVE BatchLoop(_, _, _, _, _)
BatchLoop(commands, max_len, batches, current_batch, current_length) ==
    IF commands = <<>>
    THEN IF current_batch # <<>> THEN Append(batches, current_batch)
                                 ELSE batches
    ELSE LET cmd == Head(commands)
             cmd_len == Len(cmd)
             separator_len == IF current_batch = <<>> THEN 0 ELSE 1
             full == /\ current_length + separator_len + cmd_len > max_len
                     /\ current_batch # <<>>
             b1 == IF full THEN Append(batches, current_batch) ELSE batches
             c1 == IF full THEN <<>> ELSE current_batch
             l1 == IF full THEN 0 ELSE current_length
             l2 == l1 + (IF l1 = 0 THEN cmd_len ELSE 1 + cmd_len)
         IN BatchLoop(Tail(commands), max_len, b1, Append(c1, cmd), l2)

\* variant: the last batch is forgotten
batch_commands_NoLastBatch(commands, max_len) ==
    LET b == BatchLoop(commands, max_len, <<>>, <<>>, 0)
    IN IF b = <<>> THEN b ELSE SubSeq(b, 1, Len(b) - 1)

batch_commands(commands, max_len) == BatchLoop(commands, max_len, <<>>, <<>>, 0)

VARIABLES
    commands,         \* config.commands
    max_length,       \* config.max_length
    payloads,         \* the payloads the broker may deliver
    replies,          \* the raw responses the daemon may give to a command
    outcomes,         \* how the MQTT client may take a publish submission
    interval,         \* config.interval, in seconds
    mqtt_subscribe,   \* config.mqtt_subscribe: the bridge is enabled
    subscribe_topics, \* the topics run_event_loop subscribes to
    connection,       \* VcontroldClient.connection: NoConn is None
    lock_owner,       \* holder of the connection mutex, or "none"
    lock_queue,       \* tasks waiting for the connection mutex, FIFO
    dials,            \* TCP connections opened so far
    pc,               \* position of the scheduler, the subscriber and run()
    batch,            \* the commands of the running execute_batch, per task
    cmd_idx,          \* index of the command execute_batch is at, per task
    results,          \* the results execute_batch has collected, per task
    err,              \* the error a failing execute is about to return
    batch_idx,        \* the batch of the plan the polling cycle is at
    ticks,            \* ticks of poll_interval delivered so far
    now,              \* the clock, in seconds since poll_interval was created
    deadline,         \* the instant poll_interval's next tick is due
    was_disconnected, \* run_polling_loop's local of the same name
    mqtt_connected,   \* the connectivity flag (AtomicBool)
    cycles_started,   \* "Starting polling cycle" log lines
    cycles_done,      \* "Polling cycle complete" log lines
    channel,          \* the incoming-message channel (mpsc)
    el_pc,            \* position of run_event_loop
    el_msg,           \* the message run_event_loop is forwarding
    last_event,       \* what eventloop.poll() returned last
    events,           \* events eventloop.poll() has returned so far
    sub_idx,          \* the topic the ConnAck handler is at
    sub_log,          \* subscribes the current ConnAck handler has issued
    child,            \* the vcontrold child process
    signal,           \* SIGTERM or SIGINT was delivered
    fired,            \* the branch of run()'s select! that completed
    exit_error,       \* run()'s exit_error
    cleanup,          \* cleanup steps run() has performed
    exit_code,        \* "running", then the exit status: "success" or "failure"
    plan,             \* what batch_commands returned: <<>> before the call,
                      \* then the one-element sequence of its result
    parsed,           \* what parse_response returned, in the same way
    published,        \* the publishes the last publish_results submitted
    response,         \* the response publish of the request the subscriber
                      \* is at: <<>> while there is none
    sub_msg,          \* run_subscriber's `msg`: the message it received last
    quits,            \* the connections disconnect() has written quit to
    observed,         \* what each tick loaded from the connectivity flag
    sched_log,        \* the warn! and info! lines of run_polling_loop's
                      \* flag test, each with the tick that logged it
    requests,         \* submissions waiting in the AsyncClient's request
                      \* channel for the event loop to take them
    stream,           \* the bytes the reader has to give to one call of
                      \* read_until_prompt, and what follows them
    rest,             \* those of them not yet read
    raw,              \* read_until_prompt's `raw`
    buffer,           \* read_until_prompt's `buffer`
    read_ret,         \* "none" outside a call, "reading", then what the call
                      \* returned
    ready_pc,         \* position of wait_ready
    elapsed,          \* start.elapsed().as_secs() of wait_ready
    probes,           \* calls of is_ready wait_ready has made
    last_probe        \* the last of them: when it began and ended, and what
                      \* it returned

\* the configuration, with the plan derived from it once
cfgVars     == << commands, max_length, interval, mqtt_subscribe,
                 subscribe_topics, plan, parsed, payloads, replies,
                 outcomes >>
outVars     == << published, response, quits >>
readyVars   == << ready_pc, elapsed, probes, last_probe >>
subVars     == << sub_msg >>
readVars    == << stream, rest, raw, buffer, read_ret >>
reqVars     == << requests >>
sessionVars == << connection, lock_owner, lock_queue, dials >>
callVars    == << batch, cmd_idx, results, err >>
schedVars   == << batch_idx, ticks, was_disconnected, cycles_started,
                 cycles_done, now, deadline, observed, sched_log >>
elVars      == << el_pc, el_msg, last_event, events, sub_idx, sub_log >>
supVars     == << child, signal, fired, exit_error, cleanup, exit_code >>

vars == << cfgVars, sessionVars, pc, callVars, schedVars, mqtt_connected,
           channel, elVars, supVars, outVars, readyVars, subVars, readVars, reqVars >>

\* what an execute step leaves alone besides the session and the call
otherVars == << cfgVars, schedVars, mqtt_connected, channel, elVars, supVars,
               outVars, readyVars, subVars, readVars, reqVars >>

Callers == {"sched", "sub"}
Tasks   == Callers \cup {"main"}

\* ---------------------------------------------------------- session client
NoConn == [id |-> 0, state |-> "none", pending |-> <<>>]

\* the plan the scheduler derives once from the configuration
batches == batch_commands(commands, max_length)

\* tokio::sync::Mutex is fair: lock() queues behind the waiters, and the
\* guard's drop hands the mutex to the head of the queue.
Granted(p) ==
    CASE p = "ec_wait"  -> "ec_locked"
      [] p = "ex_wait"  -> "ex_locked"
      [] p = "clr_wait" -> "clr_locked"
      [] p = "dc_wait"  -> "dc_locked"
      [] OTHER          -> p

Acquire(t, granted, waiting) ==
    IF lock_owner = "none"
    THEN /\ lock_owner' = t
         /\ lock_queue' = lock_queue
         /\ pc' = [pc EXCEPT ![t] = granted]
    ELSE /\ lock_owner' = lock_owner
         /\ lock_queue' = Append(lock_queue, t)
         /\ pc' = [pc EXCEPT ![t] = waiting]

Release(t, next) ==
    IF lock_queue = <<>>
    THEN /\ lock_owner' = "none"
         /\ lock_queue' = lock_queue
         /\ pc' = [pc EXCEPT ![t] = next]
    ELSE LET w == Head(lock_queue) IN
         /\ lock_owner' = w
         /\ lock_queue' = Tail(lock_queue)
         /\ pc' = [pc EXCEPT ![t] = next, ![w] = Granted(pc[w])]

\* variant: the first error ends the loop of execute_batch
Return_ShortCircuit(t, r) ==
    /\ results' = [results EXCEPT ![t] = Append(@, r)]
    /\ cmd_idx' = [cmd_idx EXCEPT ![t] =
                      IF r.kind = "Ok" THEN @ + 1 ELSE Len(batch[t]) + 1]
    /\ err' = [err EXCEPT ![t] = "none"]

\* execute returns r to execute_batch, which pushes it and moves on
Return(t, r) ==
    /\ results' = [results EXCEPT ![t] = Append(@, r)]
    /\ cmd_idx' = [cmd_idx EXCEPT ![t] = @ + 1]
    /\ err' = [err EXCEPT ![t] = "none"]

Command(t) == batch[t][cmd_idx[t]]

Error(t, kind) ==
    [kind |-> kind, cmd |-> Trim(Command(t)), resp_of |-> <<>>,
     command |-> Command(t), value |-> NoValue, error |-> <<>>]

\* execute_batch loop head and execute's validate_command
ExecuteBegin(t) ==
    /\ pc[t] = "batch"
    /\ cmd_idx[t] <= Len(batch[t])
    /\ IF validate_command(Command(t)) # "ok"
       THEN /\ Return(t, Error(t, "Command"))
            /\ UNCHANGED << pc, lock_owner, lock_queue >>
       ELSE /\ Acquire(t, "ec_locked", "ec_wait")
            /\ UNCHANGED << results, cmd_idx, err >>
    /\ UNCHANGED << connection, dials, batch, otherVars >>

\* variant: ensure_connected dials whatever the slot holds
EnsureConnected_AlwaysDial(t) ==
    /\ pc[t] = "ec_locked"
    /\ pc' = [pc EXCEPT ![t] = "dialing"]
    /\ UNCHANGED << lock_owner, lock_queue >>
    /\ UNCHANGED << connection, dials, callVars, otherVars >>

\* ensure_connected, holding the lock: is the slot empty?
EnsureConnected(t) ==
    /\ pc[t] = "ec_locked"
    /\ IF connection # NoConn
       THEN Release(t, "ex_lock")
       ELSE /\ pc' = [pc EXCEPT ![t] = "dialing"]
            /\ UNCHANGED << lock_owner, lock_queue >>
    /\ UNCHANGED << connection, dials, callVars, otherVars >>

\* connect_internal: TcpStream::connect under CONNECT_TIMEOUT
Dial(t) ==
    /\ pc[t] = "dialing"
    /\ \/ /\ dials < MaxDials
          /\ dials' = dials + 1
          /\ pc' = [pc EXCEPT ![t] = "await_prompt"]
          /\ UNCHANGED << lock_owner, lock_queue, results, cmd_idx, err >>
       \/ /\ Release(t, "batch")
          /\ Return(t, Error(t, "ConnectionFailed"))
          /\ UNCHANGED dials
    /\ UNCHANGED << connection, batch, otherVars >>

\* connect_internal: the initial prompt under READ_TIMEOUT, then the store
AwaitPrompt(t) ==
    /\ pc[t] = "await_prompt"
    /\ \/ /\ connection' = [id |-> dials, state |-> "ok", pending |-> <<>>]
          /\ Release(t, "ex_lock")
          /\ UNCHANGED << results, cmd_idx, err >>
       \/ \E kind \in {"ConnectionLost", "Io", "Timeout"} :
          /\ Release(t, "batch")
          /\ Return(t, Error(t, kind))
          /\ UNCHANGED connection
    /\ UNCHANGED << dials, batch, otherVars >>

\* execute: the second lock()
ExecuteLock(t) ==
    /\ pc[t] = "ex_lock"
    /\ Acquire(t, "ex_locked", "ex_wait")
    /\ UNCHANGED << connection, dials, callVars, otherVars >>

\* what a failed write_all or flush does to the slot
AfterWriteError(conn) == conn

\* execute: as_mut, write_all and flush
ExecuteWrite(t) ==
    /\ pc[t] = "ex_locked"
    /\ IF connection = NoConn
       THEN /\ Release(t, "batch")
            /\ Return(t, Error(t, "ConnectionLost"))
            /\ UNCHANGED connection
       ELSE \/ /\ connection' = [connection EXCEPT
                                   !.pending = Append(@, Trim(Command(t)))]
               /\ pc' = [pc EXCEPT ![t] = "ex_read"]
               /\ UNCHANGED << lock_owner, lock_queue, results, cmd_idx, err >>
            \/ /\ connection' = AfterWriteError(connection)
               /\ Release(t, "batch")
               /\ Return(t, Error(t, "Io"))
    /\ UNCHANGED << dials, batch, otherVars >>

\* variant: a read timeout returns without clearing the slot
AfterReadFailure_KeepOnTimeout(kind) ==
    IF kind = "Timeout" THEN "release" ELSE "clr_lock"

\* where execute goes when read_until_prompt failed with `kind`: it drops
\* the guard and locks again to clear the slot
AfterReadFailure(kind) == "clr_lock"

\* execute: read_until_prompt under READ_TIMEOUT
ExecuteRead(t) ==
    /\ pc[t] = "ex_read"
    /\ \/ /\ connection.state # "dead"
          /\ connection' = [connection EXCEPT !.pending = Tail(@)]
          /\ Release(t, "batch")
          /\ \E reply \in replies :
                LET r == parse_response(Command(t), reply) IN
                Return(t, [kind |-> "Ok", cmd |-> Trim(Command(t)),
                           resp_of |-> Head(connection.pending),
                           command |-> r.command, value |-> r.value,
                           error |-> r.error])
       \/ \E kind \in {"ConnectionLost", "Io", "Timeout"} :
          /\ connection' = [connection EXCEPT
                  !.state = IF kind = "Timeout" /\ @ # "dead"
                            THEN "timedout" ELSE "dead"]
          /\ IF AfterReadFailure(kind) = "clr_lock"
             THEN /\ Release(t, "clr_lock")
                  /\ err' = [err EXCEPT ![t] = kind]
                  /\ UNCHANGED << results, cmd_idx >>
             ELSE /\ Release(t, "batch")
                  /\ Return(t, Error(t, kind))
    /\ UNCHANGED << dials, batch, otherVars >>

\* execute: `*self.connection.lock().await = None`, the lock
ClearLock(t) ==
    /\ pc[t] = "clr_lock"
    /\ Acquire(t, "clr_locked", "clr_wait")
    /\ UNCHANGED << connection, dials, callVars, otherVars >>

\* execute: `*self.connection.lock().await = None`, the store and the return
ClearSlot(t) ==
    /\ pc[t] = "clr_locked"
    /\ connection' = NoConn
    /\ Release(t, "batch")
    /\ Return(t, Error(t, err[t]))
    /\ UNCHANGED << dials, batch, otherVars >>

Execute(t) ==
    \/ ExecuteBegin(t) \/ EnsureConnected(t) \/ Dial(t) \/ AwaitPrompt(t)
    \/ ExecuteLock(t) \/ ExecuteWrite(t) \/ ExecuteRead(t)
    \/ ClearLock(t) \/ ClearSlot(t)

\* ---------------------------------------------------------------- scheduler
\* run_polling_loop up to the loop: the plan and the interval.
\* tokio::time::interval panics when its period is zero.
SchedStart ==
    /\ pc["sched"] = "start"
    /\ pc' = [pc EXCEPT !["sched"] =
                 IF commands = <<>> THEN "returned"
                 ELSE IF interval = 0 THEN "panicked" ELSE "tick"]
    /\ UNCHANGED << sessionVars, callVars, otherVars >>

\* variant: the tick ignores the flag
RunsCycle_Ungated(connected) == TRUE

\* whether the cycle runs on a tick that loaded `connected` from the flag
RunsCycle(connected) == connected

\* variant: MissedTickBehavior::Burst, the default of tokio's Interval
next_timeout_Burst(timeout, at, period) == timeout + period

\* the deadline poll_interval sets for its next tick when a tick due at
\* `timeout` is delivered at `at`: MissedTickBehavior::Skip
next_timeout(timeout, at, period) ==
    IF at > timeout
    THEN at + period - ((at - timeout) % period)
    ELSE timeout + period

\* variant: the warning is logged on every skipped tick
tick_lines_EverySkip(connected, was) ==
    IF ~connected THEN << "skipping" >>
    ELSE IF was THEN << "resuming" >> ELSE <<>>

\* the lines the flag test of a tick logs when it loaded `connected` and
\* was_disconnected is `was`
tick_lines(connected, was) ==
    IF ~connected
    THEN IF ~was THEN << "skipping" >> ELSE <<>>
    ELSE IF was THEN << "resuming" >> ELSE <<>>

\* the lines `lines`, each with the tick that logs it
RECURSIVE AtTick(_, _)
AtTick(lines, tick) ==
    IF lines = <<>> THEN <<>>
    ELSE << [tick |-> tick, line |-> Head(lines)] >> \o AtTick(Tail(lines), tick)

\* poll_interval.tick(), which waits for the deadline, the load of the flag
\* and the start of the cycle
SchedTick ==
    /\ pc["sched"] = "tick"
    /\ ticks < MaxTicks
    /\ ticks' = ticks + 1
    /\ now' = IF now < deadline THEN deadline ELSE now
    /\ deadline' = next_timeout(deadline, now', interval)
    /\ observed' = Append(observed, mqtt_connected)
    /\ sched_log' = sched_log \o
                      AtTick(tick_lines(mqtt_connected, was_disconnected), ticks')
    /\ IF ~RunsCycle(mqtt_connected)
       THEN /\ was_disconnected' = TRUE
            /\ UNCHANGED << pc, callVars, batch_idx, cycles_started >>
       ELSE /\ was_disconnected' = FALSE
            /\ cycles_started' = cycles_started + 1
            /\ batch_idx' = 1
            /\ batch' = [batch EXCEPT !["sched"] = batches[1]]
            /\ cmd_idx' = [cmd_idx EXCEPT !["sched"] = 1]
            /\ results' = [results EXCEPT !["sched"] = <<>>]
            /\ pc' = [pc EXCEPT !["sched"] = "batch"]
            /\ UNCHANGED err
    /\ UNCHANGED << cfgVars, outVars, readyVars, subVars, readVars, reqVars, sessionVars, cycles_done, mqtt_connected,
                    channel, elVars, supVars >>

\* run_polling_loop: the results of execute_batch that reach the publisher
is_successful(r) == r.kind = "Ok" /\ r.error = <<>>

\* variant: a result without a value is published as well
publish_skips_OnlyErrors(result) == result.error # <<>>

\* publish_result returns early, submitting nothing
publish_skips(result) == result.error # <<>> \/ result.value.tag = "None"

is_submitted(result) == ~publish_skips(result)

\* format_number on the decimal integers of parses_as_number: `n as i64`
\* printed, which drops leading zeros
RECURSIVE format_number(_)
format_number(text) ==
    IF Len(text) > 1 /\ Head(text) = "0" THEN format_number(Tail(text))
    ELSE text

\* the payload publish_result submits for a result it does not skip
publish_payload(result) ==
    IF result.value.tag = "Number" THEN format_number(result.value.text)
    ELSE result.value.text

\* variant: the submission is awaited without a bound
publish_returns_NoTimeout(outcome) ==
    CASE outcome = "sent"    -> "Ok"
      [] outcome = "failed"  -> "Err"
      [] outcome = "stalled" -> "Pending"

\* what publish_result returns once the client has taken the submission as
\* `outcome`: a submission that stalls is given up after PUBLISH_TIMEOUT
publish_returns(outcome) ==
    CASE outcome = "sent"    -> "Ok"
      [] outcome = "failed"  -> "Err"
      [] outcome = "stalled" -> "Ok"

\* variant: the first publish_result that returns an error ends the loop
attempted_UntilError(pubs) ==
    LET failed == {i \in 1..Len(pubs) : pubs[i].returned = "Err"}
    IN IF failed = {} THEN pubs
       ELSE SubSeq(pubs, 1, CHOOSE i \in failed : \A k \in failed : i <= k)

\* publish_results: the submissions its loop gets to, of the submissions
\* `pubs` its results call for, when none of them is pending
attempted(pubs) == pubs

\* variant: a failed execute in a batch ends the cycle
cycle_continues_UnlessFailed(idx, batch_results) ==
    /\ idx < Len(batches)
    /\ \A i \in 1..Len(batch_results) : batch_results[i].kind = "Ok"

\* `for (batch_idx, batch) in batches.iter().enumerate()`: there is a batch
\* after batch `idx`, whatever the results of batch `idx` are
cycle_continues(idx, batch_results) == idx < Len(batches)

\* execute_batch has returned: the results are published and the cycle
\* goes on to the next batch, or ends
SchedPublish ==
    /\ pc["sched"] = "batch"
    /\ cmd_idx["sched"] > Len(batch["sched"])
    /\ LET successful_results == SelectSeq(results["sched"], is_successful)
           submitted == SelectSeq(successful_results, is_submitted)
       IN \E outs \in [1..Len(submitted) -> outcomes] :
          LET pubs == [i \in 1..Len(submitted) |->
                         [topic |-> << BaseTopic, "command",
                                       submitted[i].command >>,
                          payload |-> publish_payload(submitted[i]),
                          retain |-> TRUE,
                          outcome |-> outs[i],
                          returned |-> publish_returns(outs[i])]]
              pending == {i \in 1..Len(pubs) : pubs[i].returned = "Pending"}
          IN IF pending # {}
             THEN /\ published' = SubSeq(pubs, 1,
                         CHOOSE i \in pending : \A k \in pending : i <= k)
                  /\ pc' = [pc EXCEPT !["sched"] = "blocked"]
                  /\ UNCHANGED << results, cmd_idx, batch_idx, batch,
                                  cycles_done >>
             ELSE /\ published' = attempted(pubs)
                  /\ results' = [results EXCEPT !["sched"] = <<>>]
                  /\ cmd_idx' = [cmd_idx EXCEPT !["sched"] = 1]
                  /\ IF cycle_continues(batch_idx, results["sched"])
                     THEN /\ batch_idx' = batch_idx + 1
                          /\ batch' = [batch EXCEPT !["sched"] =
                                          batches[batch_idx + 1]]
                          /\ UNCHANGED << pc, cycles_done >>
                     ELSE /\ batch_idx' = 0
                          /\ batch' = [batch EXCEPT !["sched"] = <<>>]
                          /\ cycles_done' = cycles_done + 1
                          /\ pc' = [pc EXCEPT !["sched"] = "tick"]
    /\ UNCHANGED << cfgVars, readyVars, subVars, readVars, reqVars, response, quits, sessionVars, err,
                    ticks, now, deadline, observed, sched_log,
                    was_disconnected, cycles_started, mqtt_connected, channel,
                    elVars, supVars >>

\* time passes, once poll_interval exists
Elapse ==
    /\ pc["sched"] \notin {"start", "off"}
    /\ now < MaxTime
    /\ now' = now + 1
    /\ UNCHANGED << cfgVars, outVars, readyVars, subVars, readVars, reqVars, sessionVars, pc, callVars, batch_idx,
                    ticks, was_disconnected, cycles_started, cycles_done,
                    deadline, observed, sched_log, mqtt_connected, channel,
                    elVars, supVars >>

\* a store to the connectivity flag by the holder of its other handle
FlagStore ==
    /\ exit_code = "running"
    /\ mqtt_connected' = ~mqtt_connected
    /\ UNCHANGED << cfgVars, outVars, readyVars, subVars, readVars, reqVars, sessionVars, pc, callVars, schedVars, channel,
                    elVars, supVars >>

\* --------------------------------------------------------------- subscriber
\* variant: messages of every topic are taken as requests
is_request_Any(topic) == TRUE

\* Subscriber::is_request
is_request(topic) == topic = request_topic

\* before the first message
NoMessage == [topic |-> <<>>, payload |-> <<>>]

\* message_rx.recv() and the three filters of run_subscriber
SubRecv ==
    /\ pc["sub"] = "recv"
    /\ channel # <<>>
    /\ channel' = Tail(channel)
    /\ sub_msg' = Head(channel)
    /\ LET msg == Head(channel)
           cmds == parse_commands(msg.payload)
       IN IF \/ ~is_request(msg.topic)
             \/ Trim(msg.payload) = <<>>
             \/ cmds = <<>>
          THEN UNCHANGED << pc, callVars >>
          ELSE /\ batch' = [batch EXCEPT !["sub"] = cmds]
               /\ cmd_idx' = [cmd_idx EXCEPT !["sub"] = 1]
               /\ results' = [results EXCEPT !["sub"] = <<>>]
               /\ pc' = [pc EXCEPT !["sub"] = "batch"]
               /\ UNCHANGED err
    /\ UNCHANGED << cfgVars, outVars, readyVars, readVars, reqVars, sessionVars, schedVars,
                    mqtt_connected, elVars, supVars >>

\* variant: the response goes to the topic the requests come from
response_topic_Request == <<BaseTopic, "request">>

\* Subscriber::response_topic
response_topic == <<BaseTopic, "response">>

\* run_subscriber: `filter_map(|r| r.ok())`
is_ok(r) == r.kind = "Ok"

\* AsyncClient::new(options, 100): the capacity of the request channel
RequestCapacity == 1

\* the request channel takes a submission at once
RequestRoom == requests < RequestCapacity

\* execute_batch has returned: the response is built and published,
\* without a bound on the submission. A submission that is "queued" goes
\* to the request channel, and waits for room when the channel is full.
SubRespond ==
    /\ pc["sub"] = "batch"
    /\ cmd_idx["sub"] > Len(batch["sub"])
    /\ results' = [results EXCEPT !["sub"] = <<>>]
    /\ cmd_idx' = [cmd_idx EXCEPT !["sub"] = 1]
    /\ batch' = [batch EXCEPT !["sub"] = <<>>]
    /\ LET successful_results == SelectSeq(results["sub"], is_ok)
       IN IF successful_results = <<>>
          THEN /\ response' = <<>>
               /\ pc' = [pc EXCEPT !["sub"] = "recv"]
               /\ UNCHANGED requests
          ELSE \E outcome \in outcomes :
               /\ response' = << [topic |-> response_topic,
                                  payload |-> build_json_response(
                                                  successful_results),
                                  retain |-> FALSE,
                                  outcome |-> outcome] >>
               /\ requests' = IF outcome = "queued" /\ RequestRoom
                               THEN requests + 1 ELSE requests
               /\ pc' = [pc EXCEPT !["sub"] =
                            CASE outcome = "stalled" -> "blocked"
                              [] outcome = "queued" /\ ~RequestRoom -> "submit"
                              [] OTHER -> "recv"]
    /\ UNCHANGED << cfgVars, readyVars, subVars, readVars, published, quits, sessionVars, err,
                    schedVars,
                    mqtt_connected, channel, elVars, supVars >>

\* client.publish(..).await of the response gets room in the request channel
SubSubmit ==
    /\ pc["sub"] = "submit"
    /\ RequestRoom
    /\ requests' = requests + 1
    /\ pc' = [pc EXCEPT !["sub"] = "recv"]
    /\ UNCHANGED << cfgVars, outVars, readyVars, subVars, readVars, sessionVars,
                    callVars, schedVars, mqtt_connected, channel, elVars,
                    supVars >>

\* ----------------------------------------------------------- MQTT event loop
ChannelCapacity == 1

\* the deliveries followed: MaxEvents, and enough to fill both channels
\* when submissions are queued
Deliveries ==
    IF "queued" \in outcomes THEN ChannelCapacity + RequestCapacity + 2
    ELSE MaxEvents

\* eventloop.poll() took a submission off the request channel and wrote it
\* to the broker
ElRequest ==
    /\ el_pc = "poll"
    /\ requests > 0
    /\ requests' = requests - 1
    /\ UNCHANGED << cfgVars, outVars, readyVars, subVars, readVars, sessionVars,
                    pc, callVars, schedVars, mqtt_connected, channel, elVars,
                    supVars >>

\* eventloop.poll() returned Incoming::Publish
ElPublish ==
    /\ el_pc = "poll"
    /\ events < Deliveries
    /\ events' = events + 1
    /\ last_event' = "Publish"
    /\ \E topic \in Topics, payload \in payloads :
          IF mqtt_subscribe
          THEN /\ el_msg' = [topic |-> topic, payload |-> payload]
               /\ el_pc' = "sending"
          ELSE UNCHANGED << el_msg, el_pc >>
    /\ UNCHANGED << cfgVars, outVars, readyVars, subVars, readVars, reqVars, sessionVars, pc, callVars, schedVars,
                    mqtt_connected, channel, sub_idx, sub_log, supVars >>

\* tx.send(msg).await: waits for room in the channel; fails, with a
\* warning, once the receiver is dropped
ElSend ==
    /\ el_pc = "sending"
    /\ IF pc["sub"] \in {"returned", "exited"}
       THEN UNCHANGED channel
       ELSE /\ Len(channel) < ChannelCapacity
            /\ channel' = Append(channel, el_msg)
    /\ el_msg' = <<>>
    /\ el_pc' = "poll"
    /\ UNCHANGED << cfgVars, outVars, readyVars, subVars, readVars, reqVars, sessionVars, pc, callVars, schedVars,
                    mqtt_connected, last_event, events, sub_idx, sub_log,
                    supVars >>

\* what the ConnAck handler does to the connectivity flag
FlagOnConnAck(flag) == flag
\* what the Disconnect handler does to the connectivity flag
FlagOnDisconnect(flag) == flag
\* what the poll error handler does to the connectivity flag
FlagOnError(flag) == flag

\* eventloop.poll() returned Incoming::ConnAck
ElConnAck ==
    /\ el_pc = "poll"
    /\ events < MaxEvents
    /\ events' = events + 1
    /\ last_event' = "ConnAck"
    /\ mqtt_connected' = FlagOnConnAck(mqtt_connected)
    /\ sub_idx' = 1
    /\ sub_log' = <<>>
    /\ el_pc' = IF subscribe_topics = <<>> THEN "poll" ELSE "subscribing"
    /\ UNCHANGED << cfgVars, outVars, readyVars, subVars, readVars, reqVars, sessionVars, pc, callVars, schedVars, channel,
                    el_msg, supVars >>

\* variant: the ConnAck handler stops at the first failed subscribe
ContinueAfterSubscribe_StopOnError(ok) == ok

\* whether the ConnAck handler goes on after a subscribe that returned `ok`
ContinueAfterSubscribe(ok) == TRUE

\* client.subscribe(topic, QoS::AtLeastOnce).await for the topic at sub_idx
ElSubscribe ==
    /\ el_pc = "subscribing"
    /\ \E ok \in BOOLEAN :
          /\ sub_log' = Append(sub_log, [topic |-> subscribe_topics[sub_idx],
                                         qos |-> 1, ok |-> ok])
          /\ sub_idx' = sub_idx + 1
          /\ el_pc' = IF sub_idx < Len(subscribe_topics)
                         /\ ContinueAfterSubscribe(ok)
                      THEN "subscribing" ELSE "poll"
    /\ UNCHANGED << cfgVars, outVars, readyVars, subVars, readVars, reqVars, sessionVars, pc, callVars, schedVars,
                    mqtt_connected, channel, el_msg, last_event, events,
                    supVars >>

\* eventloop.poll() returned Incoming::Disconnect
ElDisconnect ==
    /\ el_pc = "poll"
    /\ events < MaxEvents
    /\ events' = events + 1
    /\ last_event' = "Disconnect"
    /\ mqtt_connected' = FlagOnDisconnect(mqtt_connected)
    /\ UNCHANGED << cfgVars, outVars, readyVars, subVars, readVars, reqVars, sessionVars, pc, callVars, schedVars, channel,
                    el_pc, el_msg, sub_idx, sub_log, supVars >>

\* eventloop.poll() returned SubAck, PubAck, another packet or Outgoing
ElOther ==
    /\ el_pc = "poll"
    /\ events < MaxEvents
    /\ events' = events + 1
    /\ last_event' = "Other"
    /\ UNCHANGED << cfgVars, outVars, readyVars, subVars, readVars, reqVars, sessionVars, pc, callVars, schedVars,
                    mqtt_connected, channel, el_pc, el_msg, sub_idx, sub_log,
                    supVars >>

\* variant: a poll error ends run_event_loop
AfterPollError_Return == "returned"

\* where run_event_loop goes when eventloop.poll() returned Err
AfterPollError == "backoff"

\* eventloop.poll() returned Err
ElError ==
    /\ el_pc = "poll"
    /\ events < MaxEvents
    /\ events' = events + 1
    /\ last_event' = "Error"
    /\ mqtt_connected' = FlagOnError(mqtt_connected)
    /\ el_pc' = AfterPollError
    /\ UNCHANGED << cfgVars, outVars, readyVars, subVars, readVars, reqVars, sessionVars, pc, callVars, schedVars, channel,
                    el_msg, sub_idx, sub_log, supVars >>

\* the 10 s sleep is over
ElBackoff ==
    /\ el_pc = "backoff"
    /\ el_pc' = "poll"
    /\ UNCHANGED << cfgVars, outVars, readyVars, subVars, readVars, reqVars, sessionVars, pc, callVars, schedVars,
                    mqtt_connected, channel, el_msg, last_event, events,
                    sub_idx, sub_log, supVars >>

\* --------------------------------------------------------------- supervisor
\* the vcontrold child exits on its own
ChildExit ==
    /\ exit_code = "running"
    /\ child = "running"
    /\ child' = "exited"
    /\ UNCHANGED << cfgVars, outVars, readyVars, subVars, readVars, reqVars, sessionVars, pc, callVars, schedVars,
                    mqtt_connected, channel, elVars, signal, fired,
                    exit_error, cleanup, exit_code >>

\* SIGTERM or SIGINT arrives, once select! has polled shutdown_signal(),
\* which installs the handlers
ShutdownSignal ==
    /\ exit_code = "running"
    /\ pc["main"] \notin {"wait_ready", "mqtt_new"}
    /\ ~signal
    /\ signal' = TRUE
    /\ UNCHANGED << cfgVars, outVars, readyVars, subVars, readVars, reqVars, sessionVars, pc, callVars, schedVars,
                    mqtt_connected, channel, elVars, child, fired,
                    exit_error, cleanup, exit_code >>

\* variant: the branch of a task that was not launched completes at once
ReadyBranches_AbsentCompletes ==
    {b \in {"process", "eventloop", "polling", "subscriber", "signal"} :
        \/ b = "process"    /\ child = "exited"
        \/ b = "eventloop"  /\ el_pc = "returned"
        \/ b = "polling"    /\ pc["sched"] \in {"returned", "panicked", "off"}
        \/ b = "subscriber" /\ pc["sub"] \in {"returned", "off"}
        \/ b = "signal"     /\ signal}

\* the branches of run()'s select! that are ready: the branch of a task
\* that was not launched awaits future::pending
ReadyBranches ==
    {b \in {"process", "eventloop", "polling", "subscriber", "signal"} :
        \/ b = "process"    /\ child = "exited"
        \/ b = "eventloop"  /\ el_pc = "returned"
        \/ b = "polling"    /\ pc["sched"] \in {"returned", "panicked"}
        \/ b = "subscriber" /\ pc["sub"] = "returned"
        \/ b = "signal"     /\ signal}

\* the exit_error the branch `b` of select! evaluates to
ExitError(b) == IF b = "process" THEN "UnexpectedExit" ELSE "none"

\* run(): the select! over the child, the three tasks and the signal
SupSelect ==
    /\ pc["main"] = "select"
    /\ \E b \in ReadyBranches :
          /\ fired' = b
          /\ exit_error' = ExitError(b)
    /\ pc' = [pc EXCEPT !["main"] = "kill"]
    /\ UNCHANGED << cfgVars, outVars, readyVars, subVars, readVars, reqVars, sessionVars, callVars, schedVars, mqtt_connected,
                    channel, elVars, child, signal, cleanup, exit_code >>

\* variant: a failed kill skips the disconnect
AfterKill_AbortOnError(ok) == IF ok THEN "dc_lock" ELSE "return"

\* where run() goes after vcontrold_process.kill() that returned `ok`
AfterKill(ok) == "dc_lock"

\* vcontrold_process.kill().await: a failure is only logged
SupKill ==
    /\ pc["main"] = "kill"
    /\ \E ok \in BOOLEAN :
          /\ child' = IF ok /\ child = "running" THEN "killed" ELSE child
          /\ pc' = [pc EXCEPT !["main"] = AfterKill(ok)]
    /\ cleanup' = Append(cleanup, "kill")
    /\ UNCHANGED << cfgVars, outVars, readyVars, subVars, readVars, reqVars, sessionVars, callVars, schedVars, mqtt_connected,
                    channel, elVars, signal, fired, exit_error, exit_code >>

\* vcontrold_client.disconnect(): the lock()
SupDisconnectLock ==
    /\ pc["main"] = "dc_lock"
    /\ Acquire("main", "dc_locked", "dc_wait")
    /\ UNCHANGED << connection, dials, callVars, otherVars >>

\* variant: quit is written and the connection stays in the slot
disconnect_KeepSlot(next) ==
    /\ pc["main"] = "dc_locked"
    /\ connection' = connection
    /\ quits' = IF connection # NoConn THEN Append(quits, connection.id)
                ELSE quits
    /\ Release("main", next)

\* VcontroldClient::disconnect under the lock: take(), and for a connection
\* the best-effort write of quit; the caller goes on at `next`
disconnect(next) ==
    /\ pc["main"] = "dc_locked"
    /\ connection' = NoConn
    /\ quits' = IF connection # NoConn THEN Append(quits, connection.id)
                ELSE quits
    /\ Release("main", next)

\* vcontrold_client.disconnect() of run()'s cleanup
SupDisconnect ==
    /\ disconnect("return")
    /\ cleanup' = Append(cleanup, "disconnect")
    /\ UNCHANGED << cfgVars, published, response, readyVars, subVars, readVars, reqVars, dials, callVars,
                    schedVars, mqtt_connected, channel, elVars, child, signal,
                    fired, exit_error, exit_code >>

\* disconnect() called by the owner of the client at any time: the lock()
DisconnectLock ==
    /\ pc["main"] = "idle"
    /\ Acquire("main", "dc_locked", "dc_wait")
    /\ UNCHANGED << connection, dials, callVars, otherVars >>

\* disconnect() called by the owner of the client at any time
Disconnect ==
    /\ disconnect("idle")
    /\ UNCHANGED << cfgVars, published, response, readyVars, subVars, readVars, reqVars, dials, callVars,
                    schedVars, mqtt_connected, channel, elVars, supVars >>

\* ------------------------------------------------------------ readiness wait
READINESS_TIMEOUT_SECS == 30
READINESS_PROBE_INTERVAL == 1
CONNECT_TIMEOUT == 10
READ_TIMEOUT == 30

NoProbe == [begin |-> 0, end |-> 0, ok |-> FALSE]

\* wait_ready's loop condition
ReadyWindowOpen(secs) == secs < READINESS_TIMEOUT_SECS

\* wait_ready: the loop head
WaitReadyCheck ==
    /\ ready_pc = "check"
    /\ ready_pc' = IF ReadyWindowOpen(elapsed) THEN "probe" ELSE "timeout"
    /\ UNCHANGED << elapsed, probes, last_probe, cfgVars, outVars, subVars, readVars, reqVars, sessionVars,
                    pc, callVars, schedVars, mqtt_connected, channel, elVars,
                    supVars >>

\* client.is_ready(): connect_internal under its two timeouts takes `d`
\* seconds and gives a prompt or not
WaitReadyProbe ==
    /\ ready_pc = "probe"
    /\ \E d \in 0..(CONNECT_TIMEOUT + READ_TIMEOUT), ok \in BOOLEAN :
          /\ elapsed' = elapsed + d
          /\ last_probe' = [begin |-> elapsed, end |-> elapsed + d, ok |-> ok]
          /\ ready_pc' = IF ok THEN "ok" ELSE "sleep"
    /\ probes' = probes + 1
    /\ UNCHANGED << cfgVars, outVars, subVars, readVars, reqVars, sessionVars, pc, callVars, schedVars,
                    mqtt_connected, channel, elVars, supVars >>

\* sleep(READINESS_PROBE_INTERVAL)
WaitReadySleep ==
    /\ ready_pc = "sleep"
    /\ elapsed' = elapsed + READINESS_PROBE_INTERVAL
    /\ ready_pc' = "check"
    /\ UNCHANGED << probes, last_probe, cfgVars, outVars, subVars, readVars, reqVars, sessionVars, pc,
                    callVars, schedVars, mqtt_connected, channel, elVars,
                    supVars >>

\* the exit status main() ends with when run() returned with exit error `e`
\* ("failure" is status 1, "success" is status 0)
ExitStatus(e) == IF e # "none" THEN "failure" ELSE "success"

\* run() returns and main() ends the process, and with it every task
SupReturn ==
    /\ pc["main"] = "return"
    /\ exit_code' = ExitStatus(exit_error)
    /\ pc' = [t \in Tasks |-> "exited"]
    /\ el_pc' = "exited"
    /\ UNCHANGED << cfgVars, outVars, readyVars, subVars, readVars, reqVars, sessionVars, callVars, schedVars, mqtt_connected,
                    channel, el_msg, last_event, events, sub_idx, sub_log,
                    child, signal, fired, exit_error, cleanup >>

\* ------------------------------------------------------------ specifications
TopicLists == { <<>>, <<request_topic>>, << request_topic, <<BaseTopic, "other">> >> }

\* the tasks and the session before any of them has taken a step
InitRun ==
    /\ plan = <<>>
    /\ parsed = <<>>
    /\ published = <<>>
    /\ response = <<>>
    /\ quits = <<>>
    /\ sub_msg = NoMessage
    /\ observed = <<>>
    /\ sched_log = <<>>
    /\ connection = NoConn
    /\ lock_owner = "none"
    /\ lock_queue = <<>>
    /\ dials = 0
    /\ batch = [t \in Callers |-> <<>>]
    /\ cmd_idx = [t \in Callers |-> 1]
    /\ results = [t \in Callers |-> <<>>]
    /\ err = [t \in Callers |-> "none"]
    /\ batch_idx = 0
    /\ ticks = 0
    /\ now = 0
    /\ deadline = 0
    /\ was_disconnected = FALSE
    /\ mqtt_connected = FALSE
    /\ cycles_started = 0
    /\ cycles_done = 0
    /\ channel = <<>>
    /\ requests = 0
    /\ el_msg = <<>>
    /\ last_event = "none"
    /\ events = 0
    /\ sub_idx = 1
    /\ sub_log = <<>>
    /\ child = "running"
    /\ signal = FALSE
    /\ fired = "none"
    /\ exit_error = "none"
    /\ cleanup = <<>>
    /\ exit_code = "running"

\* the tasks run() has launched, and where the owner of the client is
InitPc(main) ==
    /\ pc = [t \in Tasks |->
               CASE t = "sched" -> IF commands # <<>> THEN "start" ELSE "off"
                 [] t = "sub"   -> IF mqtt_subscribe THEN "recv" ELSE "off"
                 [] OTHER       -> main]
    /\ el_pc = "poll"

\* wait_ready has returned Ok on its first probe
WaitReadyReturned ==
    /\ ready_pc = "ok"
    /\ elapsed = 0
    /\ probes = 1
    /\ last_probe = [begin |-> 0, end |-> 0, ok |-> TRUE]

\* no call of read_until_prompt is followed byte by byte
NoRead ==
    /\ stream = [bytes |-> <<>>, end |-> "eof"]
    /\ rest = <<>>
    /\ raw = <<>>
    /\ buffer = <<>>
    /\ read_ret = "none"

\* the tasks and the session at "vcontrold-mqttd started"
InitTasks == InitRun /\ InitPc("select") /\ WaitReadyReturned /\ NoRead

\* the state at "vcontrold-mqttd started"
InitState(intervals, subscribes, topic_lists) ==
    /\ commands = PollCommands
    /\ max_length \in MaxLengths
    /\ interval \in intervals
    /\ mqtt_subscribe \in subscribes
    /\ subscribe_topics \in topic_lists
    /\ payloads = Payloads
    /\ replies = { <<"1">> }
    /\ outcomes = {"sent"}
    /\ InitTasks

\* The session client under its two callers: the scheduler, gated by the
\* connectivity flag, and the subscriber, fed by the event loop.
Init == InitState({1}, {TRUE}, { <<request_topic>> })

Next ==
    \/ SchedStart
    \/ SchedTick
    \/ SchedPublish
    \/ FlagStore
    \/ SubRecv
    \/ SubRespond
    \/ ElPublish
    \/ ElSend
    \/ \E t \in Callers : ExecuteBegin(t)
    \/ \E t \in Callers : EnsureConnected(t)
    \/ \E t \in Callers : Dial(t)
    \/ \E t \in Callers : AwaitPrompt(t)
    \/ \E t \in Callers : ExecuteLock(t)
    \/ \E t \in Callers : ExecuteWrite(t)
    \/ \E t \in Callers : ExecuteRead(t)
    \/ \E t \in Callers : ClearLock(t)
    \/ \E t \in Callers : ClearSlot(t)

Spec == Init /\ [][Next]_vars

\* The MQTT event loop alone, with and without the bridge: nothing drains
\* the incoming-message channel.
InitMqtt == InitState({1}, BOOLEAN, TopicLists)

NextMqtt ==
    \/ ElPublish
    \/ ElSend
    \/ ElConnAck
    \/ ElSubscribe
    \/ ElDisconnect
    \/ ElOther
    \/ ElError
    \/ ElBackoff

SpecMqtt == InitMqtt /\ [][NextMqtt]_vars

\* The supervisor over the child, the scheduler (whose interval may be
\* zero) and the shutdown signal, with the bridge disabled.
InitSup == InitState({0, 1}, {FALSE}, { <<>> })

NextSup ==
    \/ SchedStart
    \/ SchedTick
    \/ SchedPublish
    \/ FlagStore
    \/ \E t \in Callers : ExecuteBegin(t)
    \/ \E t \in Callers : EnsureConnected(t)
    \/ \E t \in Callers : Dial(t)
    \/ \E t \in Callers : AwaitPrompt(t)
    \/ \E t \in Callers : ExecuteLock(t)
    \/ \E t \in Callers : ExecuteWrite(t)
    \/ \E t \in Callers : ExecuteRead(t)
    \/ \E t \in Callers : ClearLock(t)
    \/ \E t \in Callers : ClearSlot(t)
    \/ ChildExit
    \/ ShutdownSignal
    \/ SupSelect
    \/ SupKill
    \/ SupDisconnectLock
    \/ SupDisconnect
    \/ SupReturn

SpecSup == InitSup /\ [][NextSup]_vars

\* The supervisor over every choice of what it launches: with and without
\* a command to poll, with the bridge enabled and disabled. The broker is
\* not connected, so a launched scheduler ticks and skips its cycles.
InitLaunch ==
    /\ commands \in { <<>>, << <<"a">> >> }
    /\ max_length = 1
    /\ interval \in {0, 1}
    /\ mqtt_subscribe \in BOOLEAN
    /\ subscribe_topics = << request_topic >>
    /\ payloads = Payloads
    /\ replies = { <<"1">> }
    /\ outcomes = {"sent"}
    /\ InitTasks

NextLaunch ==
    \/ SchedStart
    \/ SchedTick
    \/ ElPublish
    \/ ElSend
    \/ SubRecv
    \/ SubRespond
    \/ \E t \in Callers : Execute(t)
    \/ ChildExit
    \/ ShutdownSignal
    \/ SupSelect
    \/ SupKill
    \/ SupDisconnectLock
    \/ SupDisconnect
    \/ SupReturn

SpecLaunch == InitLaunch /\ [][NextLaunch]_vars

\* the event loop with the sleep of its backoff ending (tokio's timer fires)
SpecMqttFair == SpecMqtt /\ WF_vars(ElBackoff)

\* raw responses of the daemon: a number, a text, nothing, an error line
Raws == { <<"0", "1">>, <<"o", "n">>, <<>>, ERR_PREFIX \o <<"x">> }
\* how rumqttc may take a publish: delivered, refused, or never accepted
Outcomes == {"sent", "failed", "stalled"}
\* requests of one and of two commands, one with a command that is invalid
Requests == { <<"c">>, <<"c", ",", "d">>, <<"c", ",", "c">>,
              <<"x", "\t", "y", ",", "d">>, <<" ">>, <<",", " ">> }

\* The scheduler alone, with the bridge disabled, against a daemon that
\* gives every kind of response and a client that takes a publish any way.
InitPoll ==
    /\ commands = PollCommands
    /\ max_length \in MaxLengths
    /\ interval = 1
    /\ mqtt_subscribe = FALSE
    /\ subscribe_topics = <<>>
    /\ payloads = Payloads
    /\ replies = Raws
    /\ outcomes = Outcomes
    /\ InitTasks

NextPoll ==
    \/ SchedStart
    \/ SchedTick
    \/ SchedPublish
    \/ FlagStore
    \/ \E t \in Callers : ExecuteBegin(t)
    \/ \E t \in Callers : EnsureConnected(t)
    \/ \E t \in Callers : Dial(t)
    \/ \E t \in Callers : AwaitPrompt(t)
    \/ \E t \in Callers : ExecuteLock(t)
    \/ \E t \in Callers : ExecuteWrite(t)
    \/ \E t \in Callers : ExecuteRead(t)
    \/ \E t \in Callers : ClearLock(t)
    \/ \E t \in Callers : ClearSlot(t)

SpecPoll == InitPoll /\ [][NextPoll]_vars

\* The bridge alone, with no commands to poll: requests of one and of two
\* commands against a daemon that gives every kind of response.
InitBridge ==
    /\ commands = <<>>
    /\ max_length \in MaxLengths
    /\ interval = 1
    /\ mqtt_subscribe = TRUE
    /\ subscribe_topics = << request_topic >>
    /\ payloads = Requests
    /\ replies = Raws
    /\ outcomes = Outcomes
    /\ InitTasks

NextBridge ==
    \/ SubRecv
    \/ SubRespond
    \/ ElPublish
    \/ ElSend
    \/ \E t \in Callers : ExecuteBegin(t)
    \/ \E t \in Callers : EnsureConnected(t)
    \/ \E t \in Callers : Dial(t)
    \/ \E t \in Callers : AwaitPrompt(t)
    \/ \E t \in Callers : ExecuteLock(t)
    \/ \E t \in Callers : ExecuteWrite(t)
    \/ \E t \in Callers : ExecuteRead(t)
    \/ \E t \in Callers : ClearLock(t)
    \/ \E t \in Callers : ClearSlot(t)

SpecBridge == InitBridge /\ [][NextBridge]_vars

\* wait_ready on its own, against a daemon that may answer any probe or none
InitReady ==
    /\ commands = <<>>
    /\ max_length = 1
    /\ interval = 1
    /\ mqtt_subscribe = FALSE
    /\ subscribe_topics = <<>>
    /\ payloads = Payloads
    /\ replies = { <<"1">> }
    /\ outcomes = {"sent"}
    /\ InitRun
    /\ InitPc("select")
    /\ NoRead
    /\ ready_pc = "check"
    /\ elapsed = 0
    /\ probes = 0
    /\ last_probe = NoProbe

NextReady ==
    \/ WaitReadyCheck
    \/ WaitReadyProbe
    \/ WaitReadySleep

SpecReady == InitReady /\ [][NextReady]_vars

\* The client under its owner's disconnect() at any time, while the bridge
\* executes the commands of a request.
InitSession ==
    /\ commands = <<>>
    /\ max_length = 1
    /\ interval = 1
    /\ mqtt_subscribe = TRUE
    /\ subscribe_topics = << request_topic >>
    /\ payloads = Requests
    /\ replies = { <<"1">> }
    /\ outcomes = {"sent"}
    /\ InitRun
    /\ InitPc("idle")
    /\ WaitReadyReturned
    /\ NoRead

NextSession ==
    \/ NextBridge
    \/ DisconnectLock
    \/ Disconnect

SpecSession == InitSession /\ [][NextSession]_vars

\* The scheduler alone under a running clock, with a period of two seconds.
InitTick ==
    /\ commands = PollCommands
    /\ max_length = 3
    /\ interval = 2
    /\ mqtt_subscribe = FALSE
    /\ subscribe_topics = <<>>
    /\ payloads = Payloads
    /\ replies = { <<"1">> }
    /\ outcomes = {"sent"}
    /\ InitTasks

NextTick ==
    \/ NextPoll
    \/ Elapse

SpecTick == InitTick /\ [][NextTick]_vars

\* batch_commands on its own, applied to every list of up to MaxCommands
\* command names and every max_length up to MaxBatchLength
\* the event loop and the subscriber with the two bounded channels between
\* them: requests come in, every response is queued for the event loop
InitChannels ==
    /\ commands = <<>>
    /\ max_length = 1
    /\ interval = 1
    /\ mqtt_subscribe = TRUE
    /\ subscribe_topics = << request_topic >>
    /\ payloads = Payloads
    /\ replies = { <<"1">> }
    /\ outcomes = {"queued"}
    /\ InitTasks

NextChannels ==
    \/ ElPublish
    \/ ElSend
    \/ ElRequest
    \/ SubRecv
    \/ SubRespond
    \/ SubSubmit
    \/ Execute("sub")

SpecChannels == InitChannels /\ [][NextChannels]_vars

\* ------------------------------------------------------------- run() setup
\* where run() goes when `?` meets an Err after the child was spawned: it
\* returns the error at once
AfterSetupError == "return"

\* run(): vcontrold_process.wait_ready().await?
RunWaitReady ==
    /\ pc["main"] = "wait_ready"
    /\ ready_pc \in {"ok", "timeout"}
    /\ IF ready_pc = "ok"
       THEN /\ pc' = [pc EXCEPT !["main"] = "mqtt_new"]
            /\ UNCHANGED exit_error
       ELSE /\ pc' = [pc EXCEPT !["main"] = AfterSetupError]
            /\ exit_error' = "ReadinessTimeout"
    /\ UNCHANGED << cfgVars, outVars, readyVars, subVars, readVars, reqVars, sessionVars,
                    callVars, schedVars, mqtt_connected, channel, elVars,
                    child, signal, fired, cleanup, exit_code >>

\* run(): MqttClient::new(..)?, which fails when the TLS transport cannot be
\* built, then the spawns up to "vcontrold-mqttd started"
RunSpawn ==
    /\ pc["main"] = "mqtt_new"
    /\ \/ /\ pc' = [t \in Tasks |->
                      CASE t = "sched" -> IF commands # <<>> THEN "start" ELSE "off"
                        [] t = "sub"   -> IF mqtt_subscribe THEN "recv" ELSE "off"
                        [] OTHER       -> "select"]
          /\ el_pc' = "poll"
          /\ UNCHANGED exit_error
       \/ /\ pc' = [pc EXCEPT !["main"] = AfterSetupError]
          /\ exit_error' = "Mqtt"
          /\ UNCHANGED el_pc
    /\ UNCHANGED << cfgVars, outVars, readyVars, subVars, readVars, reqVars, sessionVars,
                    callVars, schedVars, mqtt_connected, channel, el_msg,
                    last_event, events, sub_idx, sub_log,
                    child, signal, fired, cleanup, exit_code >>

\* run() after VcontroldProcess::spawn returned Ok: no task is spawned yet
InitSetup ==
    /\ commands = PollCommands
    /\ max_length = 3
    /\ interval = 1
    /\ mqtt_subscribe = TRUE
    /\ subscribe_topics = <<>>
    /\ payloads = Payloads
    /\ replies = { <<"1">> }
    /\ outcomes = {"sent"}
    /\ InitRun
    /\ pc = [t \in Tasks |-> IF t = "main" THEN "wait_ready" ELSE "unspawned"]
    /\ el_pc = "unspawned"
    /\ NoRead
    /\ ready_pc = "check"
    /\ elapsed = 0
    /\ probes = 0
    /\ last_probe = NoProbe

NextSetup ==
    \/ WaitReadyCheck
    \/ WaitReadyProbe
    \/ WaitReadySleep
    \/ RunWaitReady
    \/ RunSpawn
    \/ ChildExit
    \/ ShutdownSignal
    \/ SupSelect
    \/ SupKill
    \/ SupDisconnectLock
    \/ SupDisconnect
    \/ SupReturn

SpecSetup == InitSetup /\ [][NextSetup]_vars

\* ------------------------------------------------------ read_until_prompt
PROMPT == << "v", "c", "t", "r", "l", "d", ">" >>

\* variant: the prompt is taken to end at its last byte, wherever it is
ends_with_LastByte(bytes, suffix) ==
    bytes # <<>> /\ bytes[Len(bytes)] = suffix[Len(suffix)]

\* <[u8]>::ends_with
ends_with(bytes, suffix) ==
    /\ Len(bytes) >= Len(suffix)
    /\ SubSeq(bytes, Len(bytes) - Len(suffix) + 1, Len(bytes)) = suffix

\* String::from_utf8_lossy over the bytes of the streams below: "C2" "B0"
\* is the encoding of the degree sign, either byte alone is no UTF-8 and
\* becomes U+FFFD, every other byte is ASCII and stands for itself
RECURSIVE from_utf8_lossy(_)
from_utf8_lossy(bytes) ==
    IF bytes = <<>> THEN <<>>
    ELSE IF Len(bytes) >= 2 /\ bytes[1] = "C2" /\ bytes[2] = "B0"
         THEN << "deg" >> \o from_utf8_lossy(SubSeq(bytes, 3, Len(bytes)))
    ELSE IF bytes[1] \in {"C2", "B0"}
         THEN << "FFFD" >> \o from_utf8_lossy(Tail(bytes))
    ELSE << bytes[1] >> \o from_utf8_lossy(Tail(bytes))

\* one turn of read_until_prompt's loop: reader.read of one byte
ReadUntilPrompt ==
    /\ read_ret = "reading"
    /\ IF rest = <<>>
       THEN /\ read_ret' = IF stream.end = "eof" THEN "ConnectionLost" ELSE "Io"
            /\ UNCHANGED << rest, raw, buffer >>
       ELSE /\ rest' = Tail(rest)
            /\ raw' = Append(raw, Head(rest))
            /\ IF ends_with(raw', PROMPT)
               THEN /\ buffer' = from_utf8_lossy(raw')
                    /\ read_ret' = "Ok"
               ELSE UNCHANGED << buffer, read_ret >>
    /\ UNCHANGED << stream, cfgVars, outVars, readyVars, subVars, reqVars, sessionVars, pc,
                    callVars, schedVars, mqtt_connected, channel, elVars,
                    supVars >>

\* what the daemon may send before a prompt, and after one
Leads  == { <<>>, << "1" >>, << ">" >>, << "v", "c" >>, << "2", "C2", "B0", "C" >>,
            << "C2" >>, << "v", "c", "t", "r", "l", "d" >> }
Trails == { <<>>, << "x" >>, PROMPT }

\* the reader gives the bytes, then end-of-stream ("eof") or an error
Streams ==
    { [bytes |-> lead \o mid \o trail, end |-> e] :
        lead \in Leads, mid \in {<<>>, PROMPT}, trail \in Trails,
        e \in {"eof", "err"} }

InitRead ==
    /\ commands = <<>>
    /\ max_length = 1
    /\ interval = 1
    /\ mqtt_subscribe = FALSE
    /\ subscribe_topics = <<>>
    /\ payloads = Payloads
    /\ replies = { <<"1">> }
    /\ outcomes = {"sent"}
    /\ InitRun
    /\ InitPc("select")
    /\ WaitReadyReturned
    /\ stream \in Streams
    /\ rest = stream.bytes
    /\ raw = <<>>
    /\ buffer = <<>>
    /\ read_ret = "reading"

NextRead == ReadUntilPrompt

SpecRead == InitRead /\ [][NextRead]_vars

CommandLists == UNION { [1..n -> CommandNames] : n \in 0..MaxCommands }

BatchCommands ==
    /\ plan = <<>>
    /\ plan' = << batch_commands(commands, max_length) >>
    /\ UNCHANGED << commands, max_length, interval, mqtt_subscribe,
                    subscribe_topics, parsed, payloads, replies, outcomes,
                    outVars, readyVars, subVars, readVars, reqVars, sessionVars, pc, callVars, schedVars,
                    mqtt_connected, channel, elVars, supVars >>

InitBatch ==
    /\ commands \in CommandLists
    /\ max_length \in 0..MaxBatchLength
    /\ interval = 1
    /\ mqtt_subscribe = FALSE
    /\ subscribe_topics = <<>>
    /\ payloads = Payloads
    /\ replies = { <<"1">> }
    /\ outcomes = {"sent"}
    /\ InitTasks

NextBatch == BatchCommands

SpecBatch == InitBatch /\ [][NextBatch]_vars

\* parse_response on its own, applied to every line made of one of the
\* prefixes and up to MaxLineTail further characters
RECURSIVE Strings(_, _)
Strings(alphabet, n) ==
    IF n = 0 THEN { <<>> }
    ELSE Strings(alphabet, n - 1)
         \cup { << c >> \o w : c \in alphabet, w \in Strings(alphabet, n - 1) }

LinePrefixes == { <<>>, ERR_PREFIX, <<" ">> \o ERR_PREFIX, <<"E", "R", "R">>,
                  <<"\n">> }

RawLines == { p \o w : p \in LinePrefixes,
                       w \in Strings({" ", "1", "o"}, MaxLineTail) }

ParseResponse ==
    /\ parsed = <<>>
    /\ \E reply \in replies : parsed' = << parse_response(<<"c">>, reply) >>
    /\ UNCHANGED << commands, max_length, interval, mqtt_subscribe,
                    subscribe_topics, plan, payloads, replies, outcomes,
                    outVars, readyVars, subVars, readVars, reqVars, sessionVars, pc, callVars, schedVars,
                    mqtt_connected, channel, elVars, supVars >>

InitParse ==
    /\ commands = <<>>
    /\ max_length = 1
    /\ interval = 1
    /\ mqtt_subscribe = FALSE
    /\ subscribe_topics = <<>>
    /\ payloads = Payloads
    /\ replies \in { { line } : line \in RawLines }
    /\ outcomes = {"sent"}
    /\ InitTasks

NextParse == ParseResponse

SpecParse == InitParse /\ [][NextParse]_vars

\* ------------------------------------------------------------------- claims
\* execute of task t has written its command and not yet read the prompt
InFlight(t) == pc[t] = "ex_read"

\* execute of task t returns in this step
Returns(t) == Len(results'[t]) = Len(results[t]) + 1
Returned(t) == results'[t][Len(results'[t])]

\* The lock half of C1: a command in flight holds the connection mutex, so
\* no two commands are in flight and nobody else touches the connection.
MutualExclusion ==
    /\ \A t \in Callers : InFlight(t) => lock_owner = t
    /\ lock_owner = "none" => lock_queue = <<>>

\* C1: at most one command is in flight on the session at any time, so each
\* execute that returns a result returns the response to its own command.
C1_OwnResponse ==
    /\ MutualExclusion
    /\ \A t \in Callers : \A i \in 1..Len(results[t]) :
          results[t][i].kind = "Ok" => results[t][i].resp_of = results[t][i].cmd

\* C2: a connection on which an execute ended in a read timeout,
\* end-of-stream or I/O error never has another command written to it.
C2_FailedConnectionNeverUsed ==
    \A t \in Callers : InFlight(t) => connection.state = "ok"

\* C3: when an execute returns Timeout the slot is empty, the slot is only
\* filled again by a dial that has received its initial prompt, and a
\* command is only written to a connection that is in the slot.
C3_TimeoutThenRedial ==
    [][ /\ \A t \in Callers :
              Returns(t) /\ Returned(t).kind = "Timeout" => connection' = NoConn
        /\ connection = NoConn /\ connection' # NoConn =>
              /\ \E t \in Callers : pc[t] = "await_prompt" /\ lock_owner = t
              /\ connection' = [id |-> dials, state |-> "ok", pending |-> <<>>]
              /\ dials > 0
        /\ \A t \in Callers : InFlight(t)' => connection' # NoConn ]_vars

\* a Timeout was returned and the next command of the batch is in flight
\* on a connection dialed after it
C3_Witness ==
    /\ InFlight("sched")
    /\ Len(results["sched"]) = 1
    /\ results["sched"][1].kind = "Timeout"
    /\ connection.id = 2
    /\ connection.state = "ok"

\* C4: every error execute returns from dialing, awaiting the prompt or
\* executing (write, flush, read) leaves the connection slot empty.
C4_ErrorLeavesSlotEmpty ==
    [][ \A t \in Callers :
           Returns(t) /\ Returned(t).kind \in
               {"ConnectionFailed", "ConnectionLost", "Io", "Timeout"}
           => connection' = NoConn ]_vars

\* the polling loop calls execute_batch in this step
CallsExecuteBatch == batch_idx' # batch_idx /\ batch_idx' >= 1
\* poll_interval.tick() returns in this step
Ticks == ticks' = ticks + 1

\* C5 as stated: while the connectivity flag is false the polling loop makes
\* no call to execute_batch.
C5_NoCallWhileFlagFalse ==
    [][ CallsExecuteBatch => mqtt_connected ]_vars

\* C5 as amended: a tick that reads the flag false starts no cycle and calls
\* nothing; a tick that reads it true starts exactly one cycle; execute_batch
\* is called only by such a tick or later in the cycle it started.
C5_GatedAtTick ==
    [][ /\ Ticks /\ ~mqtt_connected =>
              UNCHANGED << batch_idx, cycles_started, cycles_done, pc, batch >>
        /\ Ticks /\ mqtt_connected =>
              /\ cycles_started' = cycles_started + 1
              /\ batch_idx' = 1
              /\ cycles_started = cycles_done
        /\ cycles_started' # cycles_started => Ticks /\ mqtt_connected
        /\ CallsExecuteBatch =>
              \/ Ticks /\ mqtt_connected
              \/ /\ ~Ticks
                 /\ batch_idx' = batch_idx + 1
                 /\ cycles_started = cycles_done + 1 ]_vars

\* the first tick read false and was skipped, the second read true and its
\* one cycle is complete
C5_Witness ==
    /\ ticks = 2
    /\ cycles_started = 1
    /\ cycles_done = 1
    /\ ~was_disconnected
    /\ pc["sched"] = "tick"

\* C6: the flag starts false and reflects the last ConnAck, Disconnect or
\* poll error the event loop has handled.
C6_FlagFollowsEvents ==
    /\ last_event = "none" => ~mqtt_connected
    /\ last_event = "ConnAck" => mqtt_connected
    /\ last_event \in {"Disconnect", "Error"} => ~mqtt_connected

C8_EventLoopNeverReturns ==
    /\ [](el_pc \in {"poll", "sending", "subscribing", "backoff"})
    /\ (el_pc = "backoff") ~> (el_pc = "poll")

\* the loop polls again after a poll error
C8_Witness == last_event = "Error" /\ el_pc = "poll"

\* C9: the process exits with status zero only when the shutdown signal
\* fired, and non-zero when the child or one of the three tasks completed.
C9_ExitStatus ==
    exit_code # "running" => (exit_code = "success" <=> fired = "signal")

\* C10: the child is killed before the session client is disconnected, both
\* before the exit, and the exit status is the one the select! branch chose.
C10_CleanupOrder ==
    /\ pc["main"] \in {"select", "kill"} => cleanup = <<>>
    /\ pc["main"] \in {"dc_lock", "dc_wait", "dc_locked"} => cleanup = <<"kill">>
    /\ pc["main"] \in {"return", "exited"} => cleanup = <<"kill", "disconnect">>
    /\ exit_code # "running" =>
          /\ pc["main"] = "exited"
          /\ exit_code = (IF fired = "process" THEN "failure" ELSE "success")

\* the process has exited after a kill that failed and a disconnect
C10_Witness ==
    /\ exit_code # "running"
    /\ child = "running"
    /\ cleanup = <<"kill", "disconnect">>

\* ------------------------------------------------- claims on batch_commands
\* the result of batch_commands, once it has been called
Batches == plan[1]

\* len(join(b, ",")) of a batch b
RECURSIVE JoinLen(_)
JoinLen(b) ==
    IF b = <<>> THEN 0
    ELSE IF Len(b) = 1 THEN Len(b[1])
    ELSE Len(b[1]) + 1 + JoinLen(Tail(b))

\* the batches concatenated in order
RECURSIVE Concat(_)
Concat(bs) == IF bs = <<>> THEN <<>> ELSE Head(bs) \o Concat(Tail(bs))

\* C12: when every command is at most max_length long (empty commands
\* included), every batch joined with commas is at most max_length long.
C12_BatchFits ==
    plan # <<>> /\ (\A i \in 1..Len(commands) : Len(commands[i]) <= max_length)
        => \A k \in 1..Len(Batches) : JoinLen(Batches[k]) <= max_length

\* C13: the batches are a partition of the command list into contiguous
\* non-empty runs, and the empty list yields no batches.
C13_Partition ==
    plan # <<>> =>
        /\ Concat(Batches) = commands
        /\ \A k \in 1..Len(Batches) : Batches[k] # <<>>
        /\ commands = <<>> => Batches = <<>>

\* three commands came out as two batches, one of them of two commands
C13_Witness ==
    /\ plan # <<>>
    /\ Len(commands) = 3
    /\ Len(Batches) = 2
    /\ Len(Batches[1]) = 2

\* the commands of a list that are longer than max_length, in order
Long(cmd) == Len(cmd) > max_length

\* C14: a command longer than max_length is a batch of its own: no batch of
\* two or more holds one, and the singleton batches of long commands are
\* the long commands of the list, in order.
C14_LongCommandAlone ==
    plan # <<>> =>
        /\ \A k \in 1..Len(Batches) :
              (\E j \in 1..Len(Batches[k]) : Long(Batches[k][j]))
                  => Len(Batches[k]) = 1
        /\ SelectSeq(Concat(Batches), Long) = SelectSeq(commands, Long)

\* a long command between two short ones came out as the middle batch of three
C14_Witness ==
    /\ plan # <<>>
    /\ Len(commands) = 3
    /\ ~Long(commands[1]) /\ Long(commands[2]) /\ ~Long(commands[3])
    /\ Len(Batches) = 3
    /\ Batches[2] = << commands[2] >>

\* --------------------------------------------- claims on what is published
\* publish_results returns in this step of the polling loop
PublishesResults ==
    /\ pc["sched"] = "batch"
    /\ cmd_idx["sched"] > Len(batch["sched"])
    /\ batch_idx' # batch_idx \/ pc'["sched"] # pc["sched"]

\* the result is error-free and has a number or a text as its value
ErrorFree(r) == r.kind = "Ok" /\ r.error = <<>>
HasValue(r) == ErrorFree(r) /\ r.value.tag \in {"Number", "String"}

\* C11: the publishes of a batch go to the command topics of exactly its
\* error-free results with a number or text value, in order; a command whose
\* execute failed, that answered ERR: or that has no value gets none.
C11_OnlyValuesPublished ==
    [][ PublishesResults =>
          LET good == SelectSeq(results["sched"], HasValue) IN
          /\ Len(published') = Len(good)
          /\ \A i \in 1..Len(published') :
                /\ published'[i].topic = << BaseTopic, "command", good[i].command >>
                /\ published'[i].retain ]_vars

\* the cycle of the batch <<a, b>> is complete and only b was published
C11_Witness ==
    /\ max_length = 3
    /\ cycles_done = 1
    /\ pc["sched"] = "tick"
    /\ Len(published) = 1
    /\ published[1].topic = << BaseTopic, "command", <<"b">> >>

\* the subscriber is through with execute_batch and its response in this step
Responds ==
    /\ pc["sub"] = "batch"
    /\ cmd_idx["sub"] > Len(batch["sub"])
    /\ pc'["sub"] \in {"recv", "blocked"}

\* C15: for a request whose commands all failed (a transport error or an
\* ERR: line each) nothing is published to the response topic.
C15_AllFailedNoResponse ==
    [][ Responds /\ (\A i \in 1..Len(results["sub"]) :
                        ~ErrorFree(results["sub"][i]))
          => response' = <<>> ]_vars

\* C16: for a request with an error-free result exactly one message goes to
\* the response topic, and the keys of its JSON object are the commands
\* whose result is error-free.
C16_ResponseKeys ==
    [][ Responds /\ (\E i \in 1..Len(results["sub"]) :
                        ErrorFree(results["sub"][i]))
          => /\ Len(response') = 1
             /\ response'[1].topic = response_topic
             /\ { kv[1] : kv \in response'[1].payload } =
                    { results["sub"][i].command :
                        i \in { k \in 1..Len(results["sub"]) :
                                  ErrorFree(results["sub"][k]) } } ]_vars

\* the request "c,d" was answered with a member for d alone
C16_Witness ==
    /\ pc["sub"] = "recv"
    /\ Len(response) = 1
    /\ { kv[1] : kv \in response[1].payload } = { <<"d">> }

\* C20: a publish submission that never completes does not block the polling
\* loop: publish_result returns Ok for it, every result of the batch that
\* has a value is submitted, and the loop is at the next batch or the tick.
C20_PublishNeverBlocks ==
    /\ [](pc["sched"] # "blocked")
    /\ [](\A i \in 1..Len(published) :
            published[i].outcome = "stalled" => published[i].returned = "Ok")
    /\ [][ PublishesResults =>
            /\ Len(published') = Len(SelectSeq(results["sched"], HasValue))
            /\ \/ batch_idx' = batch_idx + 1 /\ pc'["sched"] = "batch"
               \/ batch_idx' = 0 /\ pc'["sched"] = "tick"
                  /\ cycles_done' = cycles_done + 1 ]_vars

\* the publish of a stalled, the publish of b went out and the cycle is done
C20_Witness ==
    /\ Len(published) = 2
    /\ published[1].outcome = "stalled"
    /\ published[2].outcome = "sent"
    /\ pc["sched"] = "tick"
    /\ cycles_done = 1

\* -------------------------------------------------- claims on execute_batch
\* execute_batch hands its result list to its caller in this step
BatchReturns(t) == results[t] # <<>> /\ results'[t] = <<>>

\* execute of task t writes its command to the connection in this step
Writes(t) == pc[t] # "ex_read" /\ pc'[t] = "ex_read"

\* C17: execute_batch runs one execute per command in input order and
\* returns one result per command in the same order, whatever failed; after
\* a command lost the connection or timed out the slot is empty, so the
\* next command of the batch dials.
C17_BatchInOrder ==
    [][ \A t \in Callers :
          /\ Returns(t) =>
                /\ Len(results'[t]) = cmd_idx[t]
                /\ cmd_idx'[t] = cmd_idx[t] + 1
                /\ Returned(t).command = batch[t][cmd_idx[t]]
                /\ batch'[t] = batch[t]
                /\ Returned(t).kind \in {"ConnectionLost", "Timeout"}
                      => connection' = NoConn
          /\ Writes(t) => Len(results[t]) = cmd_idx[t] - 1 /\ UNCHANGED cmd_idx
          /\ BatchReturns(t) =>
                /\ Len(results[t]) = Len(batch[t])
                /\ \A i \in 1..Len(batch[t]) :
                      results[t][i].command = batch[t][i] ]_vars

\* the first command of a request lost the connection and the second was
\* answered on a connection dialed after that
C17_Witness ==
    /\ Len(results["sub"]) = 2
    /\ results["sub"][1].kind = "ConnectionLost"
    /\ results["sub"][2].kind = "Ok"
    /\ dials = 2

\* the scheduler is between two commands of one batch
MidBatch ==
    /\ pc["sched"] \notin {"start", "tick", "off"}
    /\ 1 < cmd_idx["sched"]
    /\ cmd_idx["sched"] <= Len(batch["sched"])

\* C18: a command of the subscriber is never written to the daemon between
\* two commands of one batch of the scheduler.
C18_BatchBoundary ==
    [][ Writes("sub") => ~MidBatch ]_vars

\* ------------------------------------------------------ claims on the ticker
\* C19: a tick is never early, and however long the loop stalled, the
\* deadline of the following tick is the next period boundary after the
\* instant the tick fired: missed ticks are not delivered as a burst.
C19_SkipMissedTicks ==
    [][ Ticks =>
          /\ now' >= deadline
          /\ deadline' > now'
          /\ deadline' <= now' + interval
          /\ deadline' % interval = 0 ]_vars

\* the second tick fired after a stall of five periods
C19_Witness ==
    /\ ticks = 2
    /\ now >= 5 * interval
    /\ deadline > now

\* ------------------------------------------- claims on build_json_response
\* C21: the JSON object of a response has one member for each error-free
\* result of the request, also when a command name occurs twice, and the
\* member of a result carries its command name and the JSON of its value.
C21_MemberPerResult ==
    [][ Responds /\ response' # <<>> =>
          LET good == SelectSeq(results["sub"], ErrorFree)
              object == response'[1].payload
          IN /\ Cardinality(object) = Len(good)
             /\ \A i \in 1..Len(good) :
                   << good[i].command, to_json_value(good[i].value) >>
                       \in object ]_vars

\* ---------------------------------------------------- claims on parse_response
\* the line parse_response was given
Line == CHOOSE reply \in replies : TRUE

\* the first whitespace-delimited token of a trimmed text
Token(text) ==
    LET ends == { k \in 0..Len(text) :
                    /\ \A i \in 1..k : ~IsWhitespace(text[i])
                    /\ k = Len(text) \/ IsWhitespace(text[k + 1]) }
    IN SubSeq(text, 1, CHOOSE k \in ends : TRUE)

JoinFires == pc["main"] = "select" /\ pc'["main"] # "select"

\* C23: while the program runs the scheduler exists exactly when a command
\* is configured and the subscriber exactly when the bridge is enabled; the
\* join never completes by a task that was not launched, so without
\* commands and without the bridge it completes only by the child's exit,
\* the event loop or the signal.
C23_LaunchAndJoin ==
    /\ [](exit_code = "running" =>
            /\ pc["sched"] # "off" <=> commands # <<>>
            /\ pc["sub"] # "off" <=> mqtt_subscribe)
    /\ [][ JoinFires =>
            /\ fired' = "polling" => commands # <<>>
            /\ fired' = "subscriber" => mqtt_subscribe
            /\ commands = <<>> /\ ~mqtt_subscribe =>
                  fired' \in {"process", "eventloop", "signal"} ]_vars

\* with nothing to poll and no bridge the program ended on the signal
C23_Witness ==
    /\ commands = <<>>
    /\ ~mqtt_subscribe
    /\ fired = "signal"
    /\ exit_code = "success"

\* ------------------------------------------------------- claims on the topics
\* C24: every publish of the polling path goes to base/command/<name> for a
\* configured command with the retain flag set, and every publish of the
\* subscriber goes to base/response with the retain flag clear.
C24_TopicsAndRetain ==
    /\ \A i \in 1..Len(published) :
          /\ \E k \in 1..Len(commands) :
                published[i].topic = << BaseTopic, "command", commands[k] >>
          /\ published[i].retain
    /\ \A i \in 1..Len(response) :
          /\ response[i].topic = << BaseTopic, "response" >>
          /\ ~response[i].retain

\* both paths have published
C24_Witness == published # <<>> /\ response # <<>>

\* ---------------------------------------------------- claims on wait_ready
\* wait_ready has returned
ReadyReturned == ready_pc \in {"ok", "timeout"}

\* C25: wait_ready returns Ok exactly when a probe has succeeded, and then
\* at once; it returns ReadinessTimeout when no probe has succeeded within
\* the window of READINESS_TIMEOUT_SECS seconds; until it returns, a probe
\* begins READINESS_PROBE_INTERVAL after the previous one ended.
C25_ReadyWithinWindow ==
    /\ ready_pc = "ok" <=> last_probe.ok
    /\ last_probe.ok => elapsed = last_probe.end
    /\ ReadyReturned /\ ~(last_probe.ok /\ last_probe.end < READINESS_TIMEOUT_SECS)
          => ready_pc = "timeout"
    /\ ready_pc = "timeout" => elapsed >= READINESS_TIMEOUT_SECS
    /\ ready_pc = "probe" /\ probes > 0 =>
          elapsed = last_probe.end + READINESS_PROBE_INTERVAL

\* ------------------------------------------------ claims on the polling cycle
\* the plan of the configuration
Plan == batch_commands(commands, max_length)

\* a step keeps the order of the cycle
InCycleOrder ==
    /\ (batch_idx' # batch_idx) =>
          ( \/ /\ batch_idx' = batch_idx + 1
               /\ batch_idx' <= Len(Plan)
               /\ batch'["sched"] = Plan[batch_idx']
            \/ /\ batch_idx = Len(Plan)
               /\ batch_idx' = 0
               /\ cycles_done' = cycles_done + 1 )
    /\ (cycles_done' # cycles_done) => (batch_idx = Len(Plan))
    /\ (cycles_started' # cycles_started) =>
          ( /\ cycles_started = cycles_done
            /\ batch_idx = 0
            /\ batch_idx' = 1 )
    /\ (batch'["sched"] # batch["sched"]) => (batch_idx' # batch_idx)

\* C26: a cycle goes through the batches of the plan one by one from the
\* first to the last, whatever the executes and publishes of a batch
\* returned, and ends after the last; a cycle starts only when no cycle is
\* running.
C26_EveryBatchInOrder ==
    /\ [](cycles_started - cycles_done \in {0, 1})
    /\ [][InCycleOrder]_vars

\* the second of two batches runs after a batch with a failed execute
\* and a failed publish
C26_Witness ==
    /\ Len(Plan) = 2
    /\ batch_idx = 2
    /\ dials = 2
    /\ Len(published) = 1
    /\ published[1].outcome = "failed"

\* ------------------------------------------- claims on the scheduler's log
\* the lines the scheduler logged at tick i
LinesAt(i) ==
    LET at(entry) == entry.tick = i
        entries == SelectSeq(sched_log, at)
    IN [k \in 1..Len(entries) |-> entries[k].line]

\* C27: the warning is logged once at the first tick of every run of ticks
\* that load the flag as false, the resumption is logged once at the first
\* tick that loads it as true after such a run, and no other tick logs
\* either line.
C27_LogFollowsFlag ==
    \A i \in 1..Len(observed) :
        LET first_false == ~observed[i] /\ (i = 1 \/ observed[i - 1])
            first_true  == observed[i] /\ i > 1 /\ ~observed[i - 1]
        IN LinesAt(i) = IF first_false THEN << "skipping" >>
                        ELSE IF first_true THEN << "resuming" >>
                        ELSE <<>>

\* two ticks in a row loaded the flag as false
C27_Witness ==
    /\ observed = << FALSE, FALSE >>
    /\ sched_log # <<>>

\* ---------------------------------------------- claims on publish_results
\* C28: publish_results submits a publish for every result with a value,
\* one each and in the order of the results; every submission has returned,
\* a refused one with its error, and the ones after it are made all the
\* same.
C28_EveryResultAttempted ==
    [][ PublishesResults =>
          LET good == SelectSeq(results["sched"], HasValue) IN
          /\ [i \in 1..Len(published') |-> published'[i].topic[3]] =
                [i \in 1..Len(good) |-> good[i].command]
          /\ \A i \in 1..Len(published') :
                /\ published'[i].returned \in {"Ok", "Err"}
                /\ published'[i].outcome = "failed" =>
                      published'[i].returned = "Err" ]_vars

\* the publish of a was refused and the publish of b went out
C28_Witness ==
    /\ Len(published) = 2
    /\ published[1].outcome = "failed"
    /\ published[1].returned = "Err"
    /\ published[2].outcome = "sent"

\* --------------------------------------------- claims on dropped messages
\* the subscriber takes a message from the channel in this step
Receives == channel # <<>> /\ channel' = Tail(channel)

\* every character of the text is a blank or a comma
OnlySeparators(text) ==
    \A i \in 1..Len(text) : IsWhitespace(text[i]) \/ text[i] = ","

\* the message is not a request, or it names no command
Dropped(msg) ==
    \/ msg.topic # << BaseTopic, "request" >>
    \/ OnlySeparators(msg.payload)

\* C29: a message of another topic, or one whose payload is empty after
\* trimming or has no non-empty item between its commas, starts no
\* execute and publishes no response: the subscriber is back at recv()
\* with the session, the daemon and the response topic untouched.
C29_DroppedMessage ==
    [][ Receives /\ Dropped(Head(channel)) =>
          /\ pc'["sub"] = "recv"
          /\ UNCHANGED << response, published, connection, dials, lock_owner,
                          lock_queue, batch, results >> ]_vars

\* the subscriber took a request of blanks and commas only, and waits again
C29_Witness ==
    /\ sub_msg = [topic |-> << BaseTopic, "request" >>,
                  payload |-> << ",", " " >>]
    /\ pc["sub"] = "recv"
    /\ channel = <<>>

\* ------------------------------------------------------ claims on disconnect
\* disconnect(), holding the lock, takes the slot and returns in this step
Disconnects == pc["main"] = "dc_locked" /\ pc'["main"] # "dc_locked"

\* the connections quit was written to
Quit == { quits[i] : i \in 1..Len(quits) }

\* C30: disconnect returns with the slot empty; it writes quit to the
\* connection it found and to nothing when it found none, so that a second
\* call changes nothing; a connection it dropped is never written to
\* again, and it dials nothing itself: an execute after it dials anew.
C30_DisconnectEmptiesSlot ==
    /\ [][ Disconnects =>
            /\ connection' = NoConn
            /\ pc'["main"] = "idle"
            /\ dials' = dials
            /\ connection # NoConn => quits' = Append(quits, connection.id)
            /\ connection = NoConn => quits' = quits ]_vars
    /\ [][ \A t \in Callers :
              Writes(t) => connection.id \notin Quit /\ connection # NoConn ]_vars
    /\ [](connection # NoConn => connection.id \notin Quit)

\* after a disconnect that dropped the first connection, an execute has
\* dialed the second and got its response on it
C30_Witness ==
    /\ quits = << 1 >>
    /\ connection.id = 2
    /\ \E i \in 1..Len(results["sub"]) : results["sub"][i].kind = "Ok"
    /\ pc["main"] = "idle"

\* ------------------------------------------------------- claims on execute
\* the command is empty after trimming or has a control character in it
Invalid(cmd) ==
    \/ \A i \in 1..Len(cmd) : IsWhitespace(cmd[i])
    \/ \E i \in 1..Len(Trim(cmd)) : Trim(cmd)[i] \in {"\t", "\n"}

\* execute of task t begins in this step
Begins(t) ==
    /\ pc[t] = "batch"
    /\ cmd_idx[t] <= Len(batch[t])
    /\ pc'[t] # pc[t] \/ cmd_idx'[t] # cmd_idx[t]

\* C31: an execute of a command that fails validation returns a Command
\* error in its first step, with the slot, the dial count, the bytes sent
\* to the daemon and the lock as they were; no other execute returns a
\* Command error.
C31_InvalidCommandNoTraffic ==
    [][ \A t \in Callers :
          /\ (Begins(t) /\ Invalid(batch[t][cmd_idx[t]])) =>
                ( /\ Returns(t)
                  /\ Returned(t).kind = "Command"
                  /\ UNCHANGED << connection, dials, lock_owner, lock_queue >> )
          /\ (Returns(t) /\ Returned(t).kind = "Command") =>
                (Begins(t) /\ Invalid(batch[t][cmd_idx[t]])) ]_vars

\* the first command of a request was rejected before any dial
C31_Witness ==
    /\ Len(results["sub"]) = 1
    /\ results["sub"][1].kind = "Command"
    /\ dials = 0
    /\ connection = NoConn

\* the stream operation during which execute of task t can observe `kind`
CauseOf(t, kind) ==
    CASE kind = "Command"          -> pc[t] = "batch"
      [] kind = "ConnectionFailed" -> pc[t] = "dialing"
      [] kind = "Timeout"          -> \/ pc[t] = "await_prompt"
                                      \/ pc[t] = "clr_locked" /\ err[t] = kind
      [] kind = "ConnectionLost"   -> \/ pc[t] = "await_prompt"
                                      \/ pc[t] = "clr_locked" /\ err[t] = kind
      [] kind = "Io"               -> \/ pc[t] \in {"await_prompt", "ex_locked"}
                                      \/ pc[t] = "clr_locked" /\ err[t] = kind
      [] OTHER                     -> FALSE

\* C32: every failure execute returns carries the kind of its cause: a
\* ConnectionFailed comes from the dial, a Timeout or ConnectionLost from a
\* read that timed out or met end-of-stream, an Io from a failed read or
\* write; in particular ConnectionLost is returned only by a read that
\* observed end-of-stream.
C32_KindOfCause ==
    [][ \A t \in Callers :
          (Returns(t) /\ Returned(t).kind # "Ok") =>
              CauseOf(t, Returned(t).kind) ]_vars

\* a connection is dialed in this step
Dials == dials' # dials

\* C33: the session is lazy and persistent: nothing is dialed before an
\* execute asks for it, a dial happens only inside ensure_connected of an
\* execute that found the slot empty, the slot holds no connection but the
\* one dialed last, and a successful execute leaves in the slot the
\* connection it used, so that only a failed execute or disconnect makes
\* room for another dial.
C33_LazyAndPersistent ==
    /\ [][ Dials =>
            /\ dials' = dials + 1
            /\ connection = NoConn
            /\ \E t \in Callers : pc[t] = "dialing" /\ lock_owner = t ]_vars
    /\ [](connection # NoConn => connection.id = dials)
    /\ [][ \A t \in Callers :
              (Returns(t) /\ Returned(t).kind = "Ok") =>
                  /\ connection' # NoConn
                  /\ connection'.id = connection.id
                  /\ UNCHANGED dials ]_vars
    /\ [][ (connection # NoConn /\ connection' = NoConn) =>
              \/ Disconnects
              \/ \E t \in Callers :
                    Returns(t) /\ Returned(t).kind # "Ok" ]_vars

\* both callers were answered over the one connection ever dialed
C33_Witness ==
    /\ dials = 1
    /\ connection.id = 1
    /\ \A t \in Callers :
          /\ pc[t] = "batch"
          /\ results[t] # <<>>
          /\ \A i \in 1..Len(results[t]) : results[t][i].kind = "Ok"

\* C34: batch_commands is greedy: a batch is closed only when the next
\* command with its comma does not fit, so for every two consecutive
\* batches the joined length of the earlier one plus 1 plus the length of
\* the first command of the later one is greater than max_length.
C34_Greedy ==
    plan # <<>> =>
        \A k \in 1..(Len(Batches) - 1) :
            JoinLen(Batches[k]) + 1 + Len(Batches[k + 1][1]) > max_length

\* <<bb, a, a>> under max_length 4 came out as <<bb, a>> and <<a>>: the
\* first batch took all it could hold
C34_Witness ==
    /\ plan # <<>>
    /\ max_length = 4
    /\ commands = << <<"b", "b">>, <<"a">>, <<"a">> >>
    /\ Batches = << << <<"b", "b">>, <<"a">> >>, << <<"a">> >> >>

\* ---------------------------------------------- claims on read_until_prompt
\* the prefixes of the bytes that end with the prompt, by their lengths
PromptEnds(bytes) ==
    { n \in 1..Len(bytes) :
        /\ n >= Len(PROMPT)
        /\ SubSeq(bytes, n - Len(PROMPT) + 1, n) = PROMPT }

\* the shortest of them
FirstPromptEnd(bytes) ==
    CHOOSE n \in PromptEnds(bytes) : \A m \in PromptEnds(bytes) : n <= m

\* C35: read_until_prompt returns Ok exactly when the bytes read since the
\* call began first end with the prompt: it has then read the stream up to
\* the end of its first prompt and no byte more, and the buffer is the text
\* of those bytes, whatever follows them; while it reads, no prompt has been
\* read; at end-of-stream with no prompt read it returns ConnectionLost.
C35_ReturnsAtFirstPrompt ==
    /\ read_ret # "none" => raw \o rest = stream.bytes
    /\ read_ret = "Ok" =>
          /\ PromptEnds(stream.bytes) # {}
          /\ Len(raw) = FirstPromptEnd(stream.bytes)
          /\ buffer = from_utf8_lossy(
                          SubSeq(stream.bytes, 1, FirstPromptEnd(stream.bytes)))
    /\ read_ret = "reading" => PromptEnds(raw) = {}
    /\ read_ret \in {"ConnectionLost", "Io"} =>
          /\ PromptEnds(stream.bytes) = {}
          /\ rest = <<>>
          /\ read_ret = "ConnectionLost" <=> stream.end = "eof"

\* a response with a '>' in it and a second prompt after the first: the
\* call returned at the first prompt and left the second unread
C35_Witness ==
    /\ read_ret = "Ok"
    /\ stream.bytes = << ">" >> \o PROMPT \o PROMPT
    /\ buffer = << ">" >> \o PROMPT
    /\ rest = PROMPT

\* the stream ended before any prompt
C35_WitnessLost ==
    /\ read_ret = "ConnectionLost"
    /\ raw = << "v", "c", "t", "r", "l", "d" >>

\* ------------------------------------------------------ claims on shutdown
\* the join has fired and cleanup has disconnected the session client; the
\* process has not exited yet
CleanedUp ==
    /\ pc["main"] = "return"
    /\ cleanup # <<>>
    /\ cleanup[Len(cleanup)] = "disconnect"

\* C36: once the join has fired and cleanup has disconnected the session
\* client, neither the scheduler nor the subscriber starts another execute,
\* dials the daemon or publishes before the process exits.
C36_NothingAfterCleanup ==
    [][ CleanedUp =>
          /\ \A t \in Callers : ~Begins(t)
          /\ ~Dials
          /\ UNCHANGED << published, response >> ]_vars

\* C37: on every path on which the process exits after the child was
\* spawned (readiness timeout, failed construction of the MQTT client, any
\* branch of the join) the child has been killed, or has exited, before.
C37_ChildKilledBeforeExit ==
    exit_code # "running" => child # "running"

\* -------------------------------------------------- claims on the channels
\* the event loop waits for room in the incoming channel, which only the
\* subscriber's recv makes
ElWaitsForSubscriber ==
    /\ el_pc = "sending"
    /\ Len(channel) >= ChannelCapacity
    /\ pc["sub"] \notin {"returned", "exited"}

\* the subscriber waits for room in the request channel, which only the
\* event loop's poll makes
SubWaitsForEventLoop ==
    /\ pc["sub"] = "submit"
    /\ ~RequestRoom

\* C38: the event loop and the subscriber never wait for each other: in no
\* reachable state does the event loop wait to forward a message to the
\* full incoming channel while the subscriber waits to submit a response
\* to the full request channel.
C38_NoMutualWait ==
    ~(ElWaitsForSubscriber /\ SubWaitsForEventLoop)

\* ------------------------------------------- claims on the slot and its lock
\* execute of task t, past ensure_connected and holding the second lock,
\* takes its step
PastConnect(t) == pc[t] = "ex_locked" /\ pc'[t] # "ex_locked"

\* C39: an execute that has passed ensure_connected writes its command (the
\* write may fail): it never returns ConnectionLost with nothing sent
\* because another caller emptied the slot before its second lock.
C39_WritesWhatItConnectedFor ==
    [][ \A t \in Callers :
          PastConnect(t) =>
              /\ connection # NoConn
              /\ Writes(t) \/ (Returns(t) /\ Returned(t).kind = "Io") ]_vars

\* execute of task t, whose read has failed, stores None in this step
Clears(t) == pc[t] = "clr_locked" /\ pc'[t] # "clr_locked"

\* C40: a failing execute that empties the slot removes the connection it
\* used itself, which its failed read has marked, or finds the slot empty:
\* it never discards a fresh connection another caller dialed meanwhile.
C40_ClearsOwnConnection ==
    [][ \A t \in Callers : Clears(t) => connection.state # "ok" ]_vars

====
